---- MODULE Spec2Model ----
(***************************************************************************)
(* Alerting worker of personal-website-alerting: the detection pass        *)
(* (runAlerting), the threshold detectors, and the KV-backed alert state   *)
(* manager with its cooldown filter.                                       *)
(*                                                                         *)
(* Time is the value of Date.now() in milliseconds.  The KV namespace maps *)
(* a state key to the stored JSON text, or to nothing.                     *)
(***************************************************************************)
EXTENDS Integers, Sequences, FiniteSets, TLC

VARIABLES
    now,              \* Date.now(), milliseconds
    kv,               \* env.ALERT_STATE: state key -> stored JSON text (NoValue when absent)
    cooldownMinutes,  \* AlertStateManager.cooldownMinutes (from ALERT_COOLDOWN_MINUTES)
    run,              \* per invocation of runAlerting: position and local variables
    obs,              \* per invocation: what an observer of the pass has seen so far
    pending,          \* types whose notification failed to send and that were not recorded since
    kvTtlSeconds,     \* AlertStateManager.kvTtlSeconds (from KV_TTL_DAYS)
    expires,          \* env.ALERT_STATE: state key -> expiration of the entry (0 when never put or deleted)
    call              \* a direct call of a function of the program: its arguments and its result

vars == <<now, kv, cooldownMinutes, run, obs, pending, kvTtlSeconds, expires, call>>

----------------------------------------------------------------------------
(* Bounds of the model *)

MaxTicks == 2
MaxCooldownMinutes == 2
MaxDays == 1
MaxForced == 2

----------------------------------------------------------------------------
(* Types and constants of the program *)

\* The two entry points that start a pass: the cron handler and POST /__scheduled.
Passes == {"scheduled", "fetch"}

AlertTypes == {"high_error_rate", "high_latency", "traffic_spike",
               "llm_error_rate", "llm_latency", "llm_high_tokens"}

DEFAULT_THRESHOLDS ==
    [errorRatePercent        |-> 5,
     p95LatencyMs            |-> 2000,
     p99LatencyMs            |-> 3000,
     trafficSpikeMultiplier  |-> 2,
     llmErrorRatePercent     |-> 10,
     llmP95LatencyMs         |-> 20000,
     llmTokenSpikeMultiplier |-> 3]

\* An optional value (T | null): the empty sequence is null.
None == <<>>
Some(x) == <<x>>

\* One minute and one day of clock time, in milliseconds.
MinuteMs == 60 * 1000
DayMs == 24 * 60 * MinuteMs

RECURSIVE GCD(_, _)
GCD(a, b) == IF b = 0 THEN a ELSE GCD(b, a % b)

\* The number n / d (n >= 0, d >= 0), in lowest terms; as in JavaScript
\* n / 0 is Infinity (1 / 0) and 0 / 0 is NaN (0 / 0).
Ratio(n, d) ==
    IF d = 0 THEN [num |-> IF n = 0 THEN 0 ELSE 1, den |-> 0]
    ELSE [num |-> n \div GCD(n, d), den |-> d \div GCD(n, d)]

\* Metric values are numbers, not only integers (an error rate of 7.5 percent).
Num(n) == Ratio(n, 1)
Half(n) == Ratio(n, 2)

\* Variant: the comparison is not strict.
Greater_orEqual(x, y) == x.num * y.den >= y.num * x.den

\* x > y on numbers.
Greater(x, y) == x.num * y.den > y.num * x.den

\* Variant: the quotient is rounded down to an integer.
Divide_floor(x, y) == Ratio((x.num * y.den) \div (x.den * y.num), 1)

\* x / y on numbers.
Divide(x, y) == Ratio(x.num * y.den, x.den * y.num)

\* The decimal digits of a number, as text.
Digit(d) ==
    CASE d = 0 -> "0" [] d = 1 -> "1" [] d = 2 -> "2" [] d = 3 -> "3" [] d = 4 -> "4"
      [] d = 5 -> "5" [] d = 6 -> "6" [] d = 7 -> "7" [] d = 8 -> "8" [] d = 9 -> "9"

RECURSIVE integerText(_)
integerText(n) == IF n < 10 THEN Digit(n) ELSE integerText(n \div 10) \o Digit(n % 10)

\* The last `digits` decimal digits of n, with leading zeros.
RECURSIVE fractionText(_, _)
fractionText(n, digits) ==
    IF digits = 0 THEN "" ELSE fractionText(n \div 10, digits - 1) \o Digit(n % 10)

RECURSIVE Pow10(_)
Pow10(digits) == IF digits = 0 THEN 1 ELSE 10 * Pow10(digits - 1)

\* Number.prototype.toFixed: x rounded to `digits` decimals (a tie goes up),
\* written with exactly that many decimals.
toFixed(x, digits) ==
    IF x.den = 0 THEN (IF x.num = 0 THEN "NaN" ELSE "Infinity")
    ELSE LET scaled == (2 * x.num * Pow10(digits) + x.den) \div (2 * x.den)
         IN  integerText(scaled \div Pow10(digits))
             \o (IF digits = 0 THEN ""
                 ELSE "." \o fractionText(scaled % Pow10(digits), digits))

\* A number inside a template literal, ${x}: the shortest decimal text that
\* reads back as x.  The numbers of the model have at most three decimals.
RECURSIVE numberToString(_, _)
numberToString(x, digits) ==
    IF x.den = 0 THEN toFixed(x, 0)
    ELSE IF (x.num * Pow10(digits)) % x.den = 0 \/ digits = 3 THEN toFixed(x, digits)
    ELSE numberToString(x, digits + 1)

\* ${x}
Text(x) == numberToString(x, 0)

----------------------------------------------------------------------------
(* thresholds.ts: the detectors *)

\* Variant: any baseline is used, also one whose value is 0.
hasBaseline_any(baseline, field) == baseline # None

\* Lines 63 and 112: baseline && baseline.<field> > 0
hasBaseline(baseline, field) ==
    baseline # None /\ Greater(baseline[1][field], Num(0))

\* Variant: one latency check, P99 looked at only when P95 is within its limit.
checkCloudflareAnomalies_oneLatency(current, baseline, thresholds) ==
    LET errorRate ==
            IF Greater(current.errorRate, Num(thresholds.errorRatePercent))
            THEN << [type |-> "high_error_rate", severity |-> "high",
                     message |->
                         << "Error rate is ", toFixed(current.errorRate, 2),
                            "% (threshold: ", Text(Num(thresholds.errorRatePercent)), "%)" >>,
                     value |-> current.errorRate,
                     threshold |-> thresholds.errorRatePercent] >>
            ELSE << >>
        p95 ==
            IF Greater(current.p95Latency, Num(thresholds.p95LatencyMs))
            THEN << [type |-> "high_latency", severity |-> "high",
                     message |->
                         << "P95 latency is ", toFixed(current.p95Latency, 0),
                            "ms (threshold: ", Text(Num(thresholds.p95LatencyMs)), "ms)" >>,
                     value |-> current.p95Latency,
                     threshold |-> thresholds.p95LatencyMs] >>
            ELSE << >>
        p99 ==
            IF Greater(current.p99Latency, Num(thresholds.p99LatencyMs))
            THEN << [type |-> "high_latency", severity |-> "high",
                     message |->
                         << "P99 latency is ", toFixed(current.p99Latency, 0),
                            "ms (threshold: ", Text(Num(thresholds.p99LatencyMs)), "ms)" >>,
                     value |-> current.p99Latency,
                     threshold |-> thresholds.p99LatencyMs] >>
            ELSE << >>
        spike ==
            IF hasBaseline(baseline, "requestCount")
            THEN LET trafficRatio == Divide(current.requestCount, baseline[1].requestCount)
                 IN  IF Greater(trafficRatio, Num(thresholds.trafficSpikeMultiplier))
                     THEN << [type |-> "traffic_spike", severity |-> "default",
                              message |->
                                  << "Traffic is ", toFixed(trafficRatio, 1), "x baseline (",
                                     Text(current.requestCount), " vs ",
                                     Text(baseline[1].requestCount), " requests)" >>,
                              value |-> trafficRatio,
                              threshold |-> thresholds.trafficSpikeMultiplier] >>
                     ELSE << >>
            ELSE << >>
    IN  errorRate \o (IF p95 # << >> THEN p95 ELSE p99) \o spike

\* Variant: the spike anomaly is pushed first.
checkCloudflareAnomalies_spikeFirst(current, baseline, thresholds) ==
    LET errorRate ==
            IF Greater(current.errorRate, Num(thresholds.errorRatePercent))
            THEN << [type |-> "high_error_rate", severity |-> "high",
                     message |->
                         << "Error rate is ", toFixed(current.errorRate, 2),
                            "% (threshold: ", Text(Num(thresholds.errorRatePercent)), "%)" >>,
                     value |-> current.errorRate,
                     threshold |-> thresholds.errorRatePercent] >>
            ELSE << >>
        p95 ==
            IF Greater(current.p95Latency, Num(thresholds.p95LatencyMs))
            THEN << [type |-> "high_latency", severity |-> "high",
                     message |->
                         << "P95 latency is ", toFixed(current.p95Latency, 0),
                            "ms (threshold: ", Text(Num(thresholds.p95LatencyMs)), "ms)" >>,
                     value |-> current.p95Latency,
                     threshold |-> thresholds.p95LatencyMs] >>
            ELSE << >>
        p99 ==
            IF Greater(current.p99Latency, Num(thresholds.p99LatencyMs))
            THEN << [type |-> "high_latency", severity |-> "high",
                     message |->
                         << "P99 latency is ", toFixed(current.p99Latency, 0),
                            "ms (threshold: ", Text(Num(thresholds.p99LatencyMs)), "ms)" >>,
                     value |-> current.p99Latency,
                     threshold |-> thresholds.p99LatencyMs] >>
            ELSE << >>
        spike ==
            IF hasBaseline(baseline, "requestCount")
            THEN LET trafficRatio == Divide(current.requestCount, baseline[1].requestCount)
                 IN  IF Greater(trafficRatio, Num(thresholds.trafficSpikeMultiplier))
                     THEN << [type |-> "traffic_spike", severity |-> "default",
                              message |->
                                  << "Traffic is ", toFixed(trafficRatio, 1), "x baseline (",
                                     Text(current.requestCount), " vs ",
                                     Text(baseline[1].requestCount), " requests)" >>,
                              value |-> trafficRatio,
                              threshold |-> thresholds.trafficSpikeMultiplier] >>
                     ELSE << >>
            ELSE << >>
    IN  spike \o errorRate \o p95 \o p99

checkCloudflareAnomalies(current, baseline, thresholds) ==
    LET errorRate ==
            IF Greater(current.errorRate, Num(thresholds.errorRatePercent))
            THEN << [type |-> "high_error_rate", severity |-> "high",
                     message |->
                         << "Error rate is ", toFixed(current.errorRate, 2),
                            "% (threshold: ", Text(Num(thresholds.errorRatePercent)), "%)" >>,
                     value |-> current.errorRate,
                     threshold |-> thresholds.errorRatePercent] >>
            ELSE << >>
        p95 ==
            IF Greater(current.p95Latency, Num(thresholds.p95LatencyMs))
            THEN << [type |-> "high_latency", severity |-> "high",
                     message |->
                         << "P95 latency is ", toFixed(current.p95Latency, 0),
                            "ms (threshold: ", Text(Num(thresholds.p95LatencyMs)), "ms)" >>,
                     value |-> current.p95Latency,
                     threshold |-> thresholds.p95LatencyMs] >>
            ELSE << >>
        p99 ==
            IF Greater(current.p99Latency, Num(thresholds.p99LatencyMs))
            THEN << [type |-> "high_latency", severity |-> "high",
                     message |->
                         << "P99 latency is ", toFixed(current.p99Latency, 0),
                            "ms (threshold: ", Text(Num(thresholds.p99LatencyMs)), "ms)" >>,
                     value |-> current.p99Latency,
                     threshold |-> thresholds.p99LatencyMs] >>
            ELSE << >>
        spike ==
            IF hasBaseline(baseline, "requestCount")
            THEN LET trafficRatio == Divide(current.requestCount, baseline[1].requestCount)
                 IN  IF Greater(trafficRatio, Num(thresholds.trafficSpikeMultiplier))
                     THEN << [type |-> "traffic_spike", severity |-> "default",
                              message |->
                                  << "Traffic is ", toFixed(trafficRatio, 1), "x baseline (",
                                     Text(current.requestCount), " vs ",
                                     Text(baseline[1].requestCount), " requests)" >>,
                              value |-> trafficRatio,
                              threshold |-> thresholds.trafficSpikeMultiplier] >>
                     ELSE << >>
            ELSE << >>
    IN  errorRate \o p95 \o p99 \o spike

\* Variant: without a baseline the LangSmith detector reports nothing.
checkLangSmithAnomalies_needsBaseline(current, baseline, thresholds) ==
    LET errorRate ==
            IF Greater(current.errorRate, Num(thresholds.llmErrorRatePercent))
            THEN << [type |-> "llm_error_rate", severity |-> "high",
                     message |->
                         << "LLM error rate is ", toFixed(current.errorRate, 2), "% (",
                            Text(Num(current.errorCount)), "/",
                            Text(Num(current.totalRuns)), " runs failed)" >>,
                     value |-> current.errorRate,
                     threshold |-> thresholds.llmErrorRatePercent] >>
            ELSE << >>
        p95 ==
            IF Greater(current.p95Latency, Num(thresholds.llmP95LatencyMs))
            THEN << [type |-> "llm_latency", severity |-> "high",
                     message |->
                         << "LLM P95 latency is ",
                            toFixed(Divide(current.p95Latency, Num(1000)), 2),
                            "s (threshold: ", Text(Ratio(thresholds.llmP95LatencyMs, 1000)), "s)" >>,
                     value |-> current.p95Latency,
                     threshold |-> thresholds.llmP95LatencyMs] >>
            ELSE << >>
        tokens ==
            IF hasBaseline(baseline, "avgTokensPerRun")
            THEN LET tokenRatio == Divide(current.avgTokensPerRun, baseline[1].avgTokensPerRun)
                 IN  IF Greater(tokenRatio, Num(thresholds.llmTokenSpikeMultiplier))
                     THEN << [type |-> "llm_high_tokens", severity |-> "default",
                              message |->
                                  << "Token usage is ", toFixed(tokenRatio, 1), "x baseline (",
                                     toFixed(current.avgTokensPerRun, 0), " vs ",
                                     toFixed(baseline[1].avgTokensPerRun, 0), " tokens/run)" >>,
                              value |-> tokenRatio,
                              threshold |-> thresholds.llmTokenSpikeMultiplier] >>
                     ELSE << >>
            ELSE << >>
    IN  IF baseline = None THEN << >> ELSE errorRate \o p95 \o tokens

checkLangSmithAnomalies(current, baseline, thresholds) ==
    LET errorRate ==
            IF Greater(current.errorRate, Num(thresholds.llmErrorRatePercent))
            THEN << [type |-> "llm_error_rate", severity |-> "high",
                     message |->
                         << "LLM error rate is ", toFixed(current.errorRate, 2), "% (",
                            Text(Num(current.errorCount)), "/",
                            Text(Num(current.totalRuns)), " runs failed)" >>,
                     value |-> current.errorRate,
                     threshold |-> thresholds.llmErrorRatePercent] >>
            ELSE << >>
        p95 ==
            IF Greater(current.p95Latency, Num(thresholds.llmP95LatencyMs))
            THEN << [type |-> "llm_latency", severity |-> "high",
                     message |->
                         << "LLM P95 latency is ",
                            toFixed(Divide(current.p95Latency, Num(1000)), 2),
                            "s (threshold: ", Text(Ratio(thresholds.llmP95LatencyMs, 1000)), "s)" >>,
                     value |-> current.p95Latency,
                     threshold |-> thresholds.llmP95LatencyMs] >>
            ELSE << >>
        tokens ==
            IF hasBaseline(baseline, "avgTokensPerRun")
            THEN LET tokenRatio == Divide(current.avgTokensPerRun, baseline[1].avgTokensPerRun)
                 IN  IF Greater(tokenRatio, Num(thresholds.llmTokenSpikeMultiplier))
                     THEN << [type |-> "llm_high_tokens", severity |-> "default",
                              message |->
                                  << "Token usage is ", toFixed(tokenRatio, 1), "x baseline (",
                                     toFixed(current.avgTokensPerRun, 0), " vs ",
                                     toFixed(baseline[1].avgTokensPerRun, 0), " tokens/run)" >>,
                              value |-> tokenRatio,
                              threshold |-> thresholds.llmTokenSpikeMultiplier] >>
                     ELSE << >>
            ELSE << >>
    IN  errorRate \o p95 \o tokens

----------------------------------------------------------------------------
(* Metric snapshots the two sources can return in a pass *)

\* Cloudflare: a healthy window, and one that breaches both latency limits.
CloudflareSamples ==
    { [requestCount |-> Num(300), errorRate |-> Num(5),
       p95Latency |-> Num(l[1]), p99Latency |-> Num(l[2])] :
        l \in {<<2000, 3000>>, <<2500, 3500>>} }

CloudflareBaselines ==
    { [requestCount |-> Num(300), errorRate |-> Num(0),
       p95Latency |-> Num(0), p99Latency |-> Num(0)] }

\* LangSmith: a healthy window, and one above the LLM error-rate limit.
LangSmithSamples ==
    { [totalRuns |-> 50, errorCount |-> n, errorRate |-> Ratio(n * 100, 50),
       p95Latency |-> Num(20000), avgTokensPerRun |-> Num(100)] :
        n \in {5, 6} }

LangSmithBaselines ==
    { [totalRuns |-> 50, errorCount |-> 0, errorRate |-> Num(0), p95Latency |-> Num(0),
       avgTokensPerRun |-> Num(100)] }

\* A settled promise of a client call: fulfilled with a snapshot or null, or rejected.
Fulfilled(v) == [status |-> "fulfilled", value |-> v]
Rejected == [status |-> "rejected", value |-> None]

Settled(samples) == {Rejected, Fulfilled(None)} \cup {Fulfilled(Some(s)) : s \in samples}

----------------------------------------------------------------------------
(* state.ts: AlertStateManager *)

getStateKey(alertType) == "alert_state:" \o alertType

StateKeys == {getStateKey(t) : t \in AlertTypes}

\* kv.get(key) of a key that holds nothing returns null.
NoValue == << >>

\* The text of an environment variable is a sequence of decimal digits; a
\* variable that is not set reads as the empty text.
RECURSIVE parseInt(_)
parseInt(text) ==
    IF Len(text) = 1 THEN text[1]
    ELSE 10 * parseInt(SubSeq(text, 1, Len(text) - 1)) + text[Len(text)]

RECURSIVE Digits(_)
Digits(n) == IF n < 10 THEN <<n>> ELSE Append(Digits(n \div 10), n % 10)

\* value || fallback
OrElse(value, fallback) == IF value = << >> THEN fallback ELSE value

\* The constructor, lines 8-13: the two settings of the manager.
constructor(env) ==
    LET kvTtlDays == parseInt(OrElse(env.KV_TTL_DAYS, <<7>>))
    IN  [cooldownMinutes |-> parseInt(OrElse(env.ALERT_COOLDOWN_MINUTES, <<6, 0>>)),
         kvTtlSeconds    |-> kvTtlDays * 24 * 60 * 60]

\* The environments of the deployments under study: a short cooldown, and
\* state that is kept for a day.
Environments ==
    { [ALERT_COOLDOWN_MINUTES |-> Digits(c), KV_TTL_DAYS |-> <<1>>] :
        c \in 1..MaxCooldownMinutes }

\* Variant: the entry lives twice as long as asked.
Expiration_double(dateNow, expirationTtl) == dateNow + 2 * expirationTtl * 1000

\* kv.put(key, value, {expirationTtl}): the entry expires expirationTtl seconds
\* after the put.
Expiration(dateNow, expirationTtl) == dateNow + expirationTtl * 1000

\* The entries of the store that are still there at time dateNow, and their
\* expirations; -1 marks a key whose entry has expired.
Expire(store, expirations, dateNow) ==
    [k \in DOMAIN store |->
        IF store[k] # << >> /\ expirations[k] <= dateNow THEN << >> ELSE store[k]]

ExpireAt(store, expirations, dateNow) ==
    [k \in DOMAIN store |->
        IF store[k] # << >> /\ expirations[k] <= dateNow THEN -1 ELSE expirations[k]]

\* The JSON text of an AlertState, and the AlertState of a JSON text.
JSONstringify(state) == <<state.lastAlertTime, state.alertCount>>
JSONparse(text) == [lastAlertTime |-> text[1], alertCount |-> text[2]]

\* Variant: the filter skips nothing.
inCooldown_never(stateJson, dateNow, minutes) == FALSE

\* Variant: a type that has alerted once is skipped for good.
inCooldown_forever(stateJson, dateNow, minutes) == stateJson # NoValue

\* Variant: the cooldown is converted as if it were given in seconds.
inCooldown_seconds(stateJson, dateNow, minutes) ==
    IF stateJson # NoValue
    THEN LET state == JSONparse(stateJson)
             cooldownMs == minutes * 1000
             timeSinceLastAlert == dateNow - state.lastAlertTime
         IN  timeSinceLastAlert < cooldownMs
    ELSE FALSE

\* Variant: an anomaly is still skipped when exactly the cooldown has elapsed.
inCooldown_inclusive(stateJson, dateNow, minutes) ==
    IF stateJson # NoValue
    THEN LET state == JSONparse(stateJson)
             cooldownMs == minutes * 60 * 1000
             timeSinceLastAlert == dateNow - state.lastAlertTime
         IN  timeSinceLastAlert <= cooldownMs
    ELSE FALSE

\* filterNewAlerts, lines 25-34: TRUE when the anomaly is skipped (continue).
inCooldown(stateJson, dateNow, minutes) ==
    IF stateJson # NoValue
    THEN LET state == JSONparse(stateJson)
             cooldownMs == minutes * 60 * 1000
             timeSinceLastAlert == dateNow - state.lastAlertTime
         IN  timeSinceLastAlert < cooldownMs
    ELSE FALSE

\* filterNewAlerts as one call that meets the store `store` at time dateNow.
filterNewAlerts(anomalies, store, dateNow, minutes) ==
    SelectSeq(anomalies,
              LAMBDA a : ~inCooldown(store[getStateKey(a.type)], dateNow, minutes))

\* getState, lines 75-84.
getState(store, alertType) ==
    LET stateJson == store[getStateKey(alertType)]
    IN  IF stateJson = NoValue THEN None ELSE Some(JSONparse(stateJson))

\* kv.delete(key)
kvDelete(store, key) == [store EXCEPT ![key] = NoValue]

\* Variant: only the state of the Cloudflare types is deleted.
alertTypes_cloudflare == <<"high_error_rate", "high_latency", "traffic_spike">>

\* clearAllState, lines 90-97: the types whose state it deletes, in order.
alertTypes == <<"high_error_rate", "high_latency", "traffic_spike",
                "llm_error_rate", "llm_latency", "llm_high_tokens">>

\* clearAllState, lines 99-102: the loop of deletes over a list of types.
RECURSIVE deleteAll(_, _)
deleteAll(store, types) ==
    IF types = << >> THEN store
    ELSE deleteAll(kvDelete(store, getStateKey(Head(types))), Tail(types))

\* Variant: the first state of a type counts no alert.
nextState_fromZero(stateJson, dateNow) ==
    IF stateJson # NoValue
    THEN LET state == JSONparse(stateJson)
         IN  [lastAlertTime |-> dateNow, alertCount |-> state.alertCount + 1]
    ELSE [lastAlertTime |-> dateNow, alertCount |-> 0]

\* Variant: an existing state is counted up by two.
nextState_byTwo(stateJson, dateNow) ==
    IF stateJson # NoValue
    THEN LET state == JSONparse(stateJson)
         IN  [lastAlertTime |-> dateNow, alertCount |-> state.alertCount + 2]
    ELSE [lastAlertTime |-> dateNow, alertCount |-> 1]

\* recordAlerts, lines 53-63: the state written for an anomaly.
nextState(stateJson, dateNow) ==
    IF stateJson # NoValue
    THEN LET state == JSONparse(stateJson)
         IN  [lastAlertTime |-> dateNow, alertCount |-> state.alertCount + 1]
    ELSE [lastAlertTime |-> dateNow, alertCount |-> 1]

----------------------------------------------------------------------------
(* scheduler.ts: runAlerting *)

\* Variant: no .catch handler, the rejection reaches Promise.all.
catchToNull_rethrow(settled) == settled

\* The .catch handlers of lines 30-37 and 44-45 turn a rejected fetch into null.
catchToNull(settled) ==
    IF settled.status = "rejected" THEN Fulfilled(None) ELSE settled

\* Lines 48-65: detection on the sources that returned a snapshot.
detect(cfMetrics, cfBaseline, lsMetrics, lsBaseline) ==
    (IF cfMetrics # None
     THEN checkCloudflareAnomalies(cfMetrics[1], cfBaseline, DEFAULT_THRESHOLDS)
     ELSE << >>)
    \o
    (IF lsMetrics # None
     THEN checkLangSmithAnomalies(lsMetrics[1], lsBaseline, DEFAULT_THRESHOLDS)
     ELSE << >>)

TypesOf(anomalies) == {anomalies[k].type : k \in 1..Len(anomalies)}

TypeSeq(anomalies) == [k \in 1..Len(anomalies) |-> anomalies[k].type]

IdleRun ==
    [pc |-> "idle",
     cfMetrics |-> None, lsMetrics |-> None,
     anomalies |-> << >>, newAlerts |-> << >>,
     i |-> 0, now |-> 0, stateJson |-> NoValue]

\* runAlerting has returned; its locals are gone.
Returned == [IdleRun EXCEPT !.pc = "done"]

\* What has been observed of an invocation:
\*   outcome      how runAlerting ended ("none" while it runs)
\*   error        the error that left the try block, if any
\*   fetchFailed  the sources whose getMetrics call rejected
\*   filterAt     the clock when filterNewAlerts was called
\*   sent         the types of the delivered batch, in order
\*   recordAt     the clock when recordAlerts was called
\*   before       the store when recordAlerts was called
\*   written      the types this invocation has put
\*   calls        the POST requests made to ntfy: the types each one carried
IdleObs ==
    [outcome |-> "none", error |-> "none", fetchFailed |-> {}, filterAt |-> 0,
     sent |-> << >>, recordAt |-> 0, before |-> [k \in StateKeys |-> NoValue],
     written |-> {}, calls |-> << >>]

\* No detector is being called directly.
NoCall ==
    [fn |-> "none", current |-> None, baseline |-> None,
     thresholds |-> DEFAULT_THRESHOLDS, result |-> None]

\* The worker starts in environment env with an empty namespace.
Started(env) ==
    /\ now = 0
    /\ kv = [k \in StateKeys |-> NoValue]
    /\ expires = [k \in StateKeys |-> 0]
    /\ cooldownMinutes = constructor(env).cooldownMinutes
    /\ kvTtlSeconds = constructor(env).kvTtlSeconds
    /\ run = [p \in Passes |-> IdleRun]
    /\ obs = [p \in Passes |-> IdleObs]
    /\ pending = {}

Start(env) == Started(env) /\ call = NoCall

Init == \E env \in Environments : Start(env)

\* The clock advances by d milliseconds; entries whose expiration is reached
\* leave the store.
Advance(d) ==
    /\ now' = now + d
    /\ kv' = Expire(kv, expires, now + d)
    /\ expires' = ExpireAt(kv, expires, now + d)
    /\ UNCHANGED <<cooldownMinutes, kvTtlSeconds, call, run, obs, pending>>

\* A minute passes.
Tick ==
    /\ (now % DayMs) + MinuteMs <= MaxTicks * MinuteMs
    /\ Advance(MinuteMs)

\* A day passes between two invocations.
DayPasses ==
    /\ \A p \in Passes : run[p].pc = "idle"
    /\ now + DayMs < (MaxDays + 1) * DayMs
    /\ Advance(DayMs)

\* The runtime invokes the handler, which calls runAlerting (lines 207, 215).
runAlerting(p) ==
    /\ run[p].pc = "idle"
    /\ run' = [run EXCEPT ![p].pc = "fetch"]
    /\ obs' = [obs EXCEPT ![p] = IdleObs]
    /\ UNCHANGED <<now, kv, expires, cooldownMinutes, kvTtlSeconds, call, pending>>

\* The cron trigger: scheduled() awaits runAlerting (line 215).
scheduled == runAlerting("scheduled")

\* POST /__scheduled without forceAlert: ctx.waitUntil(runAlerting(...)) (line 207).
fetch == runAlerting("fetch")

\* An exception leaves the try block of runAlerting; its locals go out of scope.
Throw(p, what) ==
    /\ run' = [run EXCEPT ![p] = [IdleRun EXCEPT !.pc = "thrown"]]
    /\ obs' = [obs EXCEPT ![p].error = what, ![p].filterAt = 0]

\* Lines 28-65 apart from the state: what the four fetches can settle to, what
\* the .catch handlers make of each, and the anomalies detected in the result.
Fetched ==
    { LET cfS  == catchToNull(cf)
          lsS  == catchToNull(ls)
          cfbS == catchToNull(cfb)
          lsbS == catchToNull(lsb)
      IN  [cf |-> cf, ls |-> ls, cfS |-> cfS, lsS |-> lsS, cfbS |-> cfbS, lsbS |-> lsbS,
           found |-> IF "rejected" \in {cfS.status, lsS.status, cfbS.status, lsbS.status}
                     THEN << >>
                     ELSE detect(cfS.value, cfbS.value, lsS.value, lsbS.value)] :
        cf \in Settled(CloudflareSamples), ls \in Settled(LangSmithSamples),
        cfb \in Settled(CloudflareBaselines), lsb \in Settled(LangSmithBaselines) }

\* Lines 28-70: both fetches, both baseline fetches, detection.
fetchAndDetect(p) ==
    /\ run[p].pc = "fetch"
    /\ \E f \in Fetched :
          LET found == f.found
              r == [run[p] EXCEPT !.cfMetrics = f.cfS.value, !.lsMetrics = f.lsS.value,
                                  !.anomalies = found, !.newAlerts = << >>, !.i = 1]
              failed == {s \in {"cloudflare", "langsmith"} :
                            \/ s = "cloudflare" /\ f.cf.status = "rejected"
                            \/ s = "langsmith" /\ f.ls.status = "rejected"}
          IN  IF "rejected" \in {f.cfS.status, f.lsS.status, f.cfbS.status, f.lsbS.status}
              THEN \* Promise.all rejects
                   /\ run' = [run EXCEPT ![p] = [IdleRun EXCEPT !.pc = "thrown"]]
                   /\ obs' = [obs EXCEPT ![p].error = "fetch", ![p].fetchFailed = failed]
              ELSE IF Len(found) = 0
              THEN /\ run' = [run EXCEPT ![p] = Returned]
                   /\ obs' = [obs EXCEPT ![p].outcome = "returned", ![p].fetchFailed = failed]
              ELSE /\ run' = [run EXCEPT ![p] = [r EXCEPT !.pc = "filter"]]
                   /\ obs' = [obs EXCEPT ![p].fetchFailed = failed, ![p].filterAt = now]
    /\ UNCHANGED <<now, kv, expires, cooldownMinutes, kvTtlSeconds, call, pending>>

\* Variant: the filter records a kept anomaly as alerted right away.
filterGet_recording(p) ==
    /\ run[p].pc = "filter"
    /\ LET anomaly   == run[p].anomalies[run[p].i]
           key       == getStateKey(anomaly.type)
           stateJson == kv[key]
           skip      == inCooldown(stateJson, now, cooldownMinutes)
           kept      == IF skip THEN run[p].newAlerts ELSE Append(run[p].newAlerts, anomaly)
           r         == [run[p] EXCEPT !.newAlerts = kept, !.i = run[p].i + 1]
       IN  /\ kv' = IF skip THEN kv
                    ELSE [kv EXCEPT ![key] = JSONstringify(nextState(stateJson, now))]
           /\ expires' = IF skip THEN expires
                         ELSE [expires EXCEPT ![key] = Expiration(now, kvTtlSeconds)]
           /\ IF run[p].i < Len(run[p].anomalies)
              THEN /\ run' = [run EXCEPT ![p] = r]
                   /\ obs' = obs
              ELSE IF Len(kept) = 0
              THEN /\ run' = [run EXCEPT ![p] = Returned]
                   /\ obs' = [obs EXCEPT ![p].outcome = "returned", ![p].filterAt = 0]
              ELSE /\ run' = [run EXCEPT ![p] = [r EXCEPT !.pc = "send"]]
                   /\ obs' = obs
    /\ UNCHANGED <<now, cooldownMinutes, kvTtlSeconds, call, pending>>

\* Variant: the filter also skips a type that another pass in flight has kept.
filterGet_exclusive(p) ==
    /\ run[p].pc = "filter"
    /\ LET anomaly   == run[p].anomalies[run[p].i]
           stateJson == kv[getStateKey(anomaly.type)]
           held      == \E q \in Passes \ {p} : anomaly.type \in TypesOf(run[q].newAlerts)
           kept      == IF inCooldown(stateJson, now, cooldownMinutes) \/ held
                        THEN run[p].newAlerts
                        ELSE Append(run[p].newAlerts, anomaly)
           r         == [run[p] EXCEPT !.newAlerts = kept, !.i = run[p].i + 1]
       IN  IF run[p].i < Len(run[p].anomalies)
           THEN /\ run' = [run EXCEPT ![p] = r]
                /\ obs' = obs
           ELSE IF Len(kept) = 0
           THEN /\ run' = [run EXCEPT ![p] = Returned]
                /\ obs' = [obs EXCEPT ![p].outcome = "returned", ![p].filterAt = 0]
           ELSE /\ run' = [run EXCEPT ![p] = [r EXCEPT !.pc = "send"]]
                /\ obs' = obs
    /\ UNCHANGED <<now, kv, expires, cooldownMinutes, kvTtlSeconds, call, pending>>

\* filterNewAlerts, one iteration of the loop of lines 21-38: kv.get succeeded.
\* Variant: a suppressed detection restarts the cooldown of its type.
filterGet_refreshing(p) ==
    /\ run[p].pc = "filter"
    /\ LET anomaly   == run[p].anomalies[run[p].i]
           key       == getStateKey(anomaly.type)
           stateJson == kv[key]
           skip      == inCooldown(stateJson, now, cooldownMinutes)
           kept      == IF skip THEN run[p].newAlerts ELSE Append(run[p].newAlerts, anomaly)
           r         == [run[p] EXCEPT !.newAlerts = kept, !.i = run[p].i + 1]
       IN  /\ kv' = IF skip
                    THEN [kv EXCEPT ![key] = JSONstringify(nextState(stateJson, now))]
                    ELSE kv
           /\ IF run[p].i < Len(run[p].anomalies)
              THEN /\ run' = [run EXCEPT ![p] = r]
                   /\ obs' = obs
              ELSE IF Len(kept) = 0
              THEN /\ run' = [run EXCEPT ![p] = Returned]
                   /\ obs' = [obs EXCEPT ![p].outcome = "returned", ![p].filterAt = 0]
              ELSE /\ run' = [run EXCEPT ![p] = [r EXCEPT !.pc = "send"]]
                   /\ obs' = obs
    /\ UNCHANGED <<now, expires, cooldownMinutes, kvTtlSeconds, call, pending>>

\* Variant: when the filter keeps nothing, the pass notifies what it detected.
filterGet_sendsAnyway(p) ==
    /\ run[p].pc = "filter"
    /\ LET anomaly   == run[p].anomalies[run[p].i]
           stateJson == kv[getStateKey(anomaly.type)]
           kept      == IF inCooldown(stateJson, now, cooldownMinutes)
                        THEN run[p].newAlerts
                        ELSE Append(run[p].newAlerts, anomaly)
           r         == [run[p] EXCEPT !.newAlerts = kept, !.i = run[p].i + 1]
       IN  IF run[p].i < Len(run[p].anomalies)
           THEN /\ run' = [run EXCEPT ![p] = r]
                /\ obs' = obs
           ELSE IF Len(kept) = 0
           THEN /\ run' = [run EXCEPT ![p] = [r EXCEPT !.newAlerts = run[p].anomalies,
                                                       !.pc = "send"]]
                /\ obs' = obs
           ELSE /\ run' = [run EXCEPT ![p] = [r EXCEPT !.pc = "send"]]
                /\ obs' = obs
    /\ UNCHANGED <<now, kv, expires, cooldownMinutes, kvTtlSeconds, call, pending>>

filterGet(p) ==
    /\ run[p].pc = "filter"
    /\ LET anomaly   == run[p].anomalies[run[p].i]
           stateJson == kv[getStateKey(anomaly.type)]
           kept      == IF inCooldown(stateJson, now, cooldownMinutes)
                        THEN run[p].newAlerts
                        ELSE Append(run[p].newAlerts, anomaly)
           r         == [run[p] EXCEPT !.newAlerts = kept, !.i = run[p].i + 1]
       IN  IF run[p].i < Len(run[p].anomalies)
           THEN /\ run' = [run EXCEPT ![p] = r]
                /\ obs' = obs
           ELSE IF Len(kept) = 0
           THEN \* lines 75-80
                /\ run' = [run EXCEPT ![p] = Returned]
                /\ obs' = [obs EXCEPT ![p].outcome = "returned", ![p].filterAt = 0]
           ELSE /\ run' = [run EXCEPT ![p] = [r EXCEPT !.pc = "send"]]
                /\ obs' = obs
    /\ UNCHANGED <<now, kv, expires, cooldownMinutes, kvTtlSeconds, call, pending>>

\* filterNewAlerts: kv.get of line 23 rejects.
filterGetFails(p) ==
    /\ run[p].pc = "filter"
    /\ Throw(p, "store")
    /\ UNCHANGED <<now, kv, expires, cooldownMinutes, kvTtlSeconds, call, pending>>

\* Variant: the notifier posts one message per anomaly.
sendAlert_perAnomaly(p) ==
    /\ run[p].pc = "send"
    /\ run' = [run EXCEPT ![p].pc = "recordGet", ![p].i = 1, ![p].now = now]
    /\ obs' = [obs EXCEPT ![p].sent = TypeSeq(run[p].newAlerts), ![p].recordAt = now,
                          ![p].filterAt = 0, ![p].before = kv,
                          ![p].calls = @ \o [n \in 1..Len(run[p].newAlerts) |->
                                                <<run[p].newAlerts[n].type>>]]
    /\ UNCHANGED <<now, kv, expires, cooldownMinutes, kvTtlSeconds, call, pending>>

\* notifier.sendAlert delivered the batch (line 87); recordAlerts is entered (line 91)
\* and reads the clock (state.ts line 47).  Called with no anomaly, sendAlert
\* returns at once (line 233) and recordAlerts has nothing to write.
sendAlert(p) ==
    /\ run[p].pc = "send"
    /\ IF run[p].newAlerts = << >>
       THEN /\ run' = [run EXCEPT ![p] = Returned]
            /\ obs' = [obs EXCEPT ![p].outcome = "returned", ![p].filterAt = 0]
       ELSE /\ run' = [run EXCEPT ![p].pc = "recordGet", ![p].i = 1, ![p].now = now]
            /\ obs' = [obs EXCEPT ![p].sent = TypeSeq(run[p].newAlerts),
                                  ![p].recordAt = now,
                                  ![p].filterAt = 0, ![p].before = kv,
                                  ![p].calls = Append(@, TypeSeq(run[p].newAlerts))]
    /\ UNCHANGED <<now, kv, expires, cooldownMinutes, kvTtlSeconds, call, pending>>

\* Variant: a failed delivery is not thrown, the pass goes on to recordAlerts.
sendAlertFails_swallowed(p) ==
    /\ run[p].pc = "send"
    /\ run' = [run EXCEPT ![p].pc = "recordGet", ![p].i = 1, ![p].now = now]
    /\ obs' = [obs EXCEPT ![p].error = "send", ![p].filterAt = 0,
                          ![p].recordAt = now, ![p].before = kv,
                          ![p].calls = Append(@, TypeSeq(run[p].newAlerts))]
    /\ pending' = pending \cup TypesOf(run[p].newAlerts)
    /\ UNCHANGED <<now, kv, expires, cooldownMinutes, kvTtlSeconds, call>>

\* notifier.sendAlert throws: the request fails or the response is not ok
\* (lines 250-260).
sendAlertFails(p) ==
    /\ run[p].pc = "send"
    /\ run[p].newAlerts # << >>
    /\ run' = [run EXCEPT ![p] = [IdleRun EXCEPT !.pc = "thrown"]]
    /\ obs' = [obs EXCEPT ![p].error = "send", ![p].filterAt = 0,
                          ![p].calls = Append(@, TypeSeq(run[p].newAlerts))]
    /\ pending' = pending \cup TypesOf(run[p].newAlerts)
    /\ UNCHANGED <<now, kv, expires, cooldownMinutes, kvTtlSeconds, call>>

\* recordAlerts, line 51: kv.get succeeded.
recordGet(p) ==
    /\ run[p].pc = "recordGet"
    /\ LET anomaly == run[p].newAlerts[run[p].i]
       IN  run' = [run EXCEPT ![p].stateJson = kv[getStateKey(anomaly.type)],
                              ![p].pc = "recordPut"]
    /\ UNCHANGED <<now, kv, expires, cooldownMinutes, kvTtlSeconds, call, obs, pending>>

recordGetFails(p) ==
    /\ run[p].pc = "recordGet"
    /\ Throw(p, "store")
    /\ UNCHANGED <<now, kv, expires, cooldownMinutes, kvTtlSeconds, call, pending>>

\* recordAlerts, lines 53-68: kv.put succeeded.
recordPut(p) ==
    /\ run[p].pc = "recordPut"
    /\ LET anomaly == run[p].newAlerts[run[p].i]
           state   == nextState(run[p].stateJson, run[p].now)
           r       == [run[p] EXCEPT !.i = run[p].i + 1, !.stateJson = NoValue]
       IN  /\ kv' = [kv EXCEPT ![getStateKey(anomaly.type)] = JSONstringify(state)]
           /\ expires' = [expires EXCEPT ![getStateKey(anomaly.type)] =
                                             Expiration(now, kvTtlSeconds)]
           /\ pending' = pending \ {anomaly.type}
           /\ IF run[p].i < Len(run[p].newAlerts)
              THEN /\ run' = [run EXCEPT ![p] = [r EXCEPT !.pc = "recordGet"]]
                   /\ obs' = [obs EXCEPT ![p].written = @ \cup {anomaly.type}]
              ELSE /\ run' = [run EXCEPT ![p] = Returned]
                   /\ obs' = [obs EXCEPT ![p].written = @ \cup {anomaly.type},
                                         ![p].outcome = "returned"]
    /\ UNCHANGED <<now, cooldownMinutes, kvTtlSeconds, call>>

\* Variant: a failed put undoes the puts recordAlerts has made so far.
recordPutFails_undone(p) ==
    /\ run[p].pc = "recordPut"
    /\ Throw(p, "store")
    /\ kv' = obs[p].before
    /\ UNCHANGED <<now, expires, cooldownMinutes, kvTtlSeconds, call, pending>>

recordPutFails(p) ==
    /\ run[p].pc = "recordPut"
    /\ Throw(p, "store")
    /\ UNCHANGED <<now, kv, expires, cooldownMinutes, kvTtlSeconds, call, pending>>

\* Variant: the catch block throws the error on.
catchError_rethrow(p) ==
    /\ run[p].pc = "thrown"
    /\ run' = [run EXCEPT ![p].pc = "done"]
    /\ obs' = [obs EXCEPT ![p].outcome = "raised"]
    /\ UNCHANGED <<now, kv, expires, cooldownMinutes, kvTtlSeconds, call, pending>>

\* The catch block of lines 93-96: the error is logged, runAlerting returns.
catchError(p) ==
    /\ run[p].pc = "thrown"
    /\ run' = [run EXCEPT ![p].pc = "done"]
    /\ obs' = [obs EXCEPT ![p].outcome = "returned"]
    /\ UNCHANGED <<now, kv, expires, cooldownMinutes, kvTtlSeconds, call, pending>>

\* The handler's promise settles and the invocation ends.
handlerEnds(p) ==
    /\ run[p].pc = "done"
    /\ run' = [run EXCEPT ![p] = IdleRun]
    /\ obs' = [obs EXCEPT ![p] = IdleObs]
    /\ UNCHANGED <<now, kv, expires, cooldownMinutes, kvTtlSeconds, call, pending>>

Step(p) ==
    \/ fetchAndDetect(p)
    \/ filterGet(p)
    \/ filterGetFails(p)
    \/ sendAlert(p)
    \/ sendAlertFails(p)
    \/ recordGet(p)
    \/ recordGetFails(p)
    \/ recordPut(p)
    \/ recordPutFails(p)
    \/ catchError(p)
    \/ handlerEnds(p)

\* Passes run one at a time: each cron invocation ends before the next starts.
Next ==
    \/ Tick
    \/ scheduled
    \/ \E p \in Passes : Step(p)

Spec == Init /\ [][Next]_vars

\* Invocations overlap: the cron pass and a manually triggered pass can be in
\* flight together.  Both run within one reading of the clock.
NextOverlap ==
    \/ scheduled
    \/ fetch
    \/ \E p \in Passes : Step(p)

SpecOverlap == Init /\ [][NextOverlap]_vars

\* clearAllState is called while no pass is in flight.
clearAllState ==
    /\ \A p \in Passes : run[p].pc = "idle"
    /\ kv' = deleteAll(kv, alertTypes)
    /\ expires' = [k \in StateKeys |->
                      IF \E n \in 1..Len(alertTypes) : k = getStateKey(alertTypes[n])
                      THEN 0 ELSE expires[k]]
    /\ UNCHANGED <<now, cooldownMinutes, kvTtlSeconds, call, run, obs, pending>>

\* A minute passes between two invocations.
MinutePasses ==
    /\ \A p \in Passes : run[p].pc = "idle"
    /\ Tick

\* The store over days: stored state expires, and can be reset.  A pass runs
\* within one reading of the clock.
NextStore ==
    \/ MinutePasses
    \/ DayPasses
    \/ clearAllState
    \/ scheduled
    \/ \E p \in Passes : Step(p)

SpecStore == Init /\ [][NextStore]_vars

\* getState(alertType) is called while no pass is in flight (lines 75-84): it
\* reads the store and returns.
getStateCalled(alertType) ==
    /\ \A p \in Passes : run[p].pc = "idle"
    /\ call' = [fn |-> "getState", alertType |-> alertType,
                result |-> Some(getState(kv, alertType))]
    /\ UNCHANGED <<now, kv, expires, cooldownMinutes, kvTtlSeconds, run, obs, pending>>

\* The store between passes: its state is read back and reset.
NextAdmin ==
    \/ scheduled
    \/ Step("scheduled")
    \/ clearAllState
    \/ \E t \in AlertTypes : getStateCalled(t)

SpecAdmin == Init /\ [][NextAdmin]_vars

----------------------------------------------------------------------------
(* scheduler.ts: sendForcedAlert *)

\* The body of POST /__scheduled with forceAlert true (lines 161-191), the mock
\* rates left at their defaults (lines 164-165).
ForcedOptions ==
    { [ignoreCooldown |-> b, mockErrorRate |-> Num(25), mockLlmErrorRate |-> Num(35)] :
        b \in BOOLEAN }

\* Lines 111-128.
mockAnomalies(options) ==
    << [type |-> "high_error_rate", severity |-> "high",
        message |-> << "Error rate is ", toFixed(options.mockErrorRate, 2),
                       "% (threshold: 5%)" >>,
        value |-> options.mockErrorRate, threshold |-> 5],
       [type |-> "llm_error_rate", severity |-> "high",
        message |-> << "LLM error rate is ", toFixed(options.mockLlmErrorRate, 2),
                       "% (threshold: 10%)" >>,
        value |-> options.mockLlmErrorRate, threshold |-> 10] >>

\* Variant: the forced alert goes through the cooldown filter whatever
\* ignoreCooldown says.
sendForcedAlert_filtered(options) ==
    /\ run["fetch"].pc = "idle"
    /\ run' = [run EXCEPT !["fetch"] =
                  [IdleRun EXCEPT !.anomalies = mockAnomalies(options), !.i = 1,
                                  !.pc = "filter"]]
    /\ obs' = [obs EXCEPT !["fetch"] = [IdleObs EXCEPT !.filterAt = now]]
    /\ call' = [fn |-> "sendForcedAlert", options |-> options, result |-> None]
    /\ UNCHANGED <<now, kv, expires, cooldownMinutes, kvTtlSeconds, pending>>

\* The fetch handler calls sendForcedAlert (line 195), which builds the two
\* mock anomalies and, lines 130-132, either takes them all or starts
\* filterNewAlerts on them.  From there the invocation runs the same
\* filterNewAlerts, sendAlert and recordAlerts as a pass; an error is caught by
\* the handler (lines 201-204), which answers 500.
sendForcedAlert(options) ==
    /\ run["fetch"].pc = "idle"
    /\ run' = [run EXCEPT !["fetch"] =
                  IF options.ignoreCooldown
                  THEN [IdleRun EXCEPT !.anomalies = mockAnomalies(options),
                                       !.newAlerts = mockAnomalies(options),
                                       !.i = 1, !.pc = "send"]
                  ELSE [IdleRun EXCEPT !.anomalies = mockAnomalies(options), !.i = 1,
                                       !.pc = "filter"]]
    /\ obs' = [obs EXCEPT !["fetch"] =
                  [IdleObs EXCEPT !.filterAt = IF options.ignoreCooldown THEN 0 ELSE now]]
    /\ call' = [fn |-> "sendForcedAlert", options |-> options, result |-> None]
    /\ UNCHANGED <<now, kv, expires, cooldownMinutes, kvTtlSeconds, pending>>

\* What the cron passes find while forced alerts are studied: both latency
\* limits breached and the LLM error rate above its limit, so that a type the
\* forced alert sends and a type it does not send both get state.
DetectsLatencyAndLlm(p) ==
    run[p].pc = "fetch"
        => TypeSeq(run'[p].anomalies) = <<"high_latency", "high_latency", "llm_error_rate">>

StepForced(p) == Step(p) /\ DetectsLatencyAndLlm(p)

\* Forced alerts between the cron passes: an invocation starts when the other
\* handler is not running, and the clock advances between invocations.  Forced
\* alerts can be repeated without end at one reading of the clock; they are
\* followed here until a mock type has alerted MaxForced times.
NextForced ==
    \/ MinutePasses
    \/ run["fetch"].pc = "idle" /\ scheduled
    \/ \E options \in ForcedOptions :
          /\ run["scheduled"].pc = "idle"
          /\ \A n \in 1..Len(mockAnomalies(options)) :
                LET stateJson == kv[getStateKey(mockAnomalies(options)[n].type)]
                IN  stateJson # NoValue => JSONparse(stateJson).alertCount < MaxForced
          /\ sendForcedAlert(options)
    \/ \E p \in Passes : StepForced(p)

SpecForced == Init /\ [][NextForced]_vars

\* The LLM error rate is above its limit in every pass, and nothing is wrong
\* on the Cloudflare side.
DetectsAlways(p) ==
    run[p].pc = "fetch" => TypeSeq(run'[p].anomalies) = <<"llm_error_rate">>

StepLive(p) == Step(p) /\ DetectsAlways(p)

\* One cron pass after the other, each within one reading of the clock.
NextLive ==
    \/ MinutePasses
    \/ scheduled
    \/ StepLive("scheduled")

\* The clock runs, the cron trigger keeps firing and a started pass keeps
\* running; a store call and a delivery that are attempted again and again
\* eventually succeed.
Fairness ==
    /\ WF_vars(MinutePasses)
    /\ WF_vars(scheduled)
    /\ WF_vars(StepLive("scheduled"))
    /\ SF_vars(filterGet("scheduled"))
    /\ SF_vars(sendAlert("scheduled"))
    /\ SF_vars(recordGet("scheduled"))
    /\ SF_vars(recordPut("scheduled"))

SpecLive == Init /\ [][NextLive]_vars /\ Fairness

\* Environments a deployment can be given: each variable unset or set, the
\* cooldown up to two weeks, the state kept for a day or for the default week.
ConfigSamples ==
    { [ALERT_COOLDOWN_MINUTES |-> c, KV_TTL_DAYS |-> d] :
        c \in {<< >>, <<1, 4, 4, 0>>, <<2, 0, 1, 6, 0>>},
        d \in {<< >>, <<1>>} }

InitConfig == \E env \in ConfigSamples : Start(env)

SpecConfig == InitConfig /\ [][Next]_vars

----------------------------------------------------------------------------
(* The detectors called on their own *)

\* The default limits, and limits set by the caller.
ThresholdSamples ==
    {DEFAULT_THRESHOLDS,
     [DEFAULT_THRESHOLDS EXCEPT !.errorRatePercent = 7,
                                !.trafficSpikeMultiplier = 3,
                                !.llmErrorRatePercent = 12,
                                !.llmTokenSpikeMultiplier = 2]}

\* Cloudflare windows around the limits: error rates below, at and above 5
\* percent (7.5 among them), request counts from none to three times a
\* baseline of 100, latencies at the limits and above either or both.
CloudflareWindows ==
    { [requestCount |-> Num(r), errorRate |-> e,
       p95Latency |-> Num(l[1]), p99Latency |-> Num(l[2])] :
        r \in {0, 200, 250, 300},
        e \in {Num(0), Num(5), Half(15)},
        l \in {<<2000, 3000>>, <<2500, 3000>>, <<2000, 3500>>, <<2500, 3500>>} }

CloudflareWindowBaselines ==
    {None} \cup
    { Some([requestCount |-> Num(r), errorRate |-> Num(0),
            p95Latency |-> Num(0), p99Latency |-> Num(0)]) : r \in {0, 100} }

\* LangSmith windows around the limits: error rates below, at and above 10
\* percent, P95 latencies from 10 to 25 seconds, token averages from none to
\* four times a baseline of 100, over no runs or forty.
LangSmithWindows ==
    { [totalRuns |-> r, errorCount |-> (e.num * r) \div (e.den * 100),
       errorRate |-> e, p95Latency |-> Num(l), avgTokensPerRun |-> Num(t)] :
        r \in {0, 40},
        e \in {Num(0), Num(10), Half(25)},
        l \in {10000, 15000, 20000, 25000},
        t \in {0, 300, 350, 400} }

LangSmithWindowBaselines ==
    {None} \cup
    { Some([totalRuns |-> 40, errorCount |-> 0, errorRate |-> Num(0),
            p95Latency |-> Num(0), avgTokensPerRun |-> Num(t)]) : t \in {0, 100} }

DetectorCalls ==
    { [fn |-> "checkCloudflareAnomalies", current |-> Some(c), baseline |-> b,
       thresholds |-> th, result |-> None] :
        c \in CloudflareWindows, b \in CloudflareWindowBaselines, th \in ThresholdSamples }
    \cup
    { [fn |-> "checkLangSmithAnomalies", current |-> Some(c), baseline |-> b,
       thresholds |-> th, result |-> None] :
        c \in LangSmithWindows, b \in LangSmithWindowBaselines, th \in ThresholdSamples }

InitDetect == \E env \in Environments, c \in DetectorCalls : Started(env) /\ call = c

\* The Cloudflare detector returns.
cloudflareChecked ==
    /\ call.fn = "checkCloudflareAnomalies"
    /\ call.result = None
    /\ call' = [call EXCEPT !.result =
                   Some(checkCloudflareAnomalies(call.current[1], call.baseline,
                                                 call.thresholds))]
    /\ UNCHANGED <<now, kv, expires, cooldownMinutes, kvTtlSeconds, run, obs, pending>>

\* The LangSmith detector returns.
langSmithChecked ==
    /\ call.fn = "checkLangSmithAnomalies"
    /\ call.result = None
    /\ call' = [call EXCEPT !.result =
                   Some(checkLangSmithAnomalies(call.current[1], call.baseline,
                                                call.thresholds))]
    /\ UNCHANGED <<now, kv, expires, cooldownMinutes, kvTtlSeconds, run, obs, pending>>

NextDetect ==
    \/ cloudflareChecked
    \/ langSmithChecked

SpecDetect == InitDetect /\ [][NextDetect]_vars

----------------------------------------------------------------------------
(* scheduler.ts: the notifier called on its own *)

\* Variant: high priority only when every anomaly is of high severity.
determinePriority_every(anomalies) ==
    IF \A i \in 1..Len(anomalies) : anomalies[i].severity = "high"
    THEN "high" ELSE "default"

\* Lines 282-286.
determinePriority(anomalies) ==
    LET hasHighSeverity == \E i \in 1..Len(anomalies) : anomalies[i].severity = "high"
    IN  IF hasHighSeverity THEN "high" ELSE "default"

\* What the POST to ntfy comes to: the request fails, or ntfy answers.
NtfyResponses ==
    {Rejected} \cup
    { Fulfilled([ok |-> (status >= 200 /\ status <= 299), status |-> status]) :
        status \in {200, 401, 429, 500} }

\* Variant: an answer of any status counts as delivered.
delivered_anyStatus(response) == response.status = "fulfilled"

\* Lines 250-260: fetch resolved, and response.ok.
delivered(response) == response.status = "fulfilled" /\ response.value.ok

\* The batches runAlerting can hand to the notifier: what the two detectors
\* return on the windows above, concatenated, and the empty batch.
NotifierBatches ==
    { detect(Some(c), b, Some(l), lb) :
        c \in CloudflareWindows, b \in CloudflareWindowBaselines,
        l \in LangSmithWindows, lb \in LangSmithWindowBaselines }

NotifierCalls ==
    { [fn |-> "sendAlert", anomalies |-> a, response |-> r,
       request |-> None, result |-> None] :
        a \in NotifierBatches, r \in NtfyResponses }

InitNotify == \E env \in Environments, c \in NotifierCalls : Started(env) /\ call = c

\* NtfyNotifier.sendAlert, lines 232-261: nothing is posted for an empty list;
\* otherwise the request carries the priority of the batch, and the call
\* throws unless the delivery succeeded.
sendAlertCalled ==
    /\ call.fn = "sendAlert"
    /\ call.result = None
    /\ call' = IF call.anomalies = << >>
               THEN [call EXCEPT !.result = Some("returned")]
               ELSE [call EXCEPT
                        !.request = Some([Priority |-> determinePriority(call.anomalies)]),
                        !.result = Some(IF delivered(call.response)
                                        THEN "returned" ELSE "thrown")]
    /\ UNCHANGED <<now, kv, expires, cooldownMinutes, kvTtlSeconds, run, obs, pending>>

NextNotify == sendAlertCalled

SpecNotify == InitNotify /\ [][NextNotify]_vars

----------------------------------------------------------------------------
(* clients: the metric sources called on their own *)

\* What a request to a metric source comes to: the request fails, or the
\* source answers with a status and a body.  The body is JSON text or not;
\* as JSON it may carry GraphQL errors, and it carries the rows of data found.
Answer(status, json, errors, rows) ==
    Fulfilled([ok |-> (status >= 200 /\ status <= 299), status |-> status,
               body |-> [json |-> json, errors |-> errors, rows |-> rows]])

\* Rows of workersInvocationsAdaptive (part_000 lines 7-21): sums, and wall
\* times in microseconds.
CloudflareRows ==
    { [requests |-> r[1], errors |-> r[2], wallTimeP95 |-> w[1], wallTimeP99 |-> w[2]] :
        r \in {<<0, 0>>, <<200, 15>>, <<300, 15>>},
        w \in {<<1500000, 2500000>>, <<2500000, 3500000>>} }

CloudflareAnswers ==
    {Rejected}
    \cup {Answer(status, TRUE, FALSE, << >>) : status \in {401, 500}}
    \cup {Answer(200, FALSE, FALSE, << >>)}
    \cup {Answer(200, TRUE, errors, << >>) : errors \in BOOLEAN}
    \cup {Answer(200, TRUE, errors, <<row>>) : errors \in BOOLEAN, row \in CloudflareRows}

\* part_000 lines 114-127: the snapshot made of a row.
cloudflareSnapshot(metrics) ==
    LET requestCount == metrics.requests
        errors == metrics.errors
        errorRate == IF requestCount > 0 THEN Ratio(errors * 100, requestCount) ELSE Num(0)
    IN  [requestCount |-> Num(requestCount), errorRate |-> errorRate,
         p95Latency |-> Ratio(metrics.wallTimeP95, 1000),
         p99Latency |-> Ratio(metrics.wallTimeP99, 1000)]

\* Variant: an answer that is not ok reads as no data.
CloudflareAnalyticsClient_getMetrics_lenient(fetched) ==
    IF fetched.status = "rejected" THEN Rejected
    ELSE IF ~fetched.value.ok THEN Fulfilled(None)
    ELSE IF ~fetched.value.body.json THEN Rejected
    ELSE IF fetched.value.body.errors THEN Rejected
    ELSE IF fetched.value.body.rows = << >> THEN Fulfilled(None)
    ELSE Fulfilled(Some(cloudflareSnapshot(fetched.value.body.rows[1])))

\* CloudflareAnalyticsClient.getMetrics, part_000 lines 43-132: every error
\* of the try block is logged and thrown again.
CloudflareAnalyticsClient_getMetrics(fetched) ==
    IF fetched.status = "rejected" THEN Rejected
    ELSE IF ~fetched.value.ok THEN Rejected
    ELSE IF ~fetched.value.body.json THEN Rejected
    ELSE IF fetched.value.body.errors THEN Rejected
    ELSE IF fetched.value.body.rows = << >> THEN Fulfilled(None)
    ELSE Fulfilled(Some(cloudflareSnapshot(fetched.value.body.rows[1])))

\* CloudflareAnalyticsClient.getBaselineMetrics, part_000 lines 134-210: an
\* answer that is not ok returns null, and so does every error of the try
\* block; data.errors is not looked at; the latencies are not queried.
CloudflareAnalyticsClient_getBaselineMetrics(fetched) ==
    IF fetched.status = "rejected" THEN Fulfilled(None)
    ELSE IF ~fetched.value.ok THEN Fulfilled(None)
    ELSE IF ~fetched.value.body.json THEN Fulfilled(None)
    ELSE IF fetched.value.body.rows = << >> THEN Fulfilled(None)
    ELSE Fulfilled(Some([cloudflareSnapshot(fetched.value.body.rows[1])
                             EXCEPT !.p95Latency = Num(0), !.p99Latency = Num(0)]))

\* Runs of a LangSmith project (langsmith.ts lines 7-14): times in
\* milliseconds; a latency or an end_time of 0 stands for a missing one.
LangSmithRun(status, latency, start_time, end_time, total_tokens) ==
    [status |-> status, latency |-> latency, start_time |-> start_time,
     end_time |-> end_time, total_tokens |-> total_tokens]

LangSmithRunLists ==
    { << >>,
      << LangSmithRun("success", 900, 1000, 1900, 300) >>,
      << LangSmithRun("error", 0, 1000, 26000, 0),
         LangSmithRun("success", 900, 1000, 1900, 300) >>,
      << LangSmithRun("success", 21000, 1000, 22000, 400),
         LangSmithRun("error", 0, 1000, 0, 0),
         LangSmithRun("success", 0, 1000, 1800, 650),
         LangSmithRun("error", 500, 1000, 1500, 0) >> }

\* The answers to the lookup of the project: its rows are the sessions found.
SessionAnswers ==
    {Rejected, Answer(401, TRUE, FALSE, << >>), Answer(200, FALSE, FALSE, << >>),
     Answer(200, TRUE, FALSE, << >>), Answer(200, TRUE, FALSE, << [id |-> "session"] >>)}

\* The answers to the query of the runs.
RunsAnswers ==
    {Rejected, Answer(401, TRUE, FALSE, << >>), Answer(500, TRUE, FALSE, << >>),
     Answer(200, FALSE, FALSE, << >>)}
    \cup {Answer(200, TRUE, FALSE, runs) : runs \in LangSmithRunLists}

\* getSessionId, langsmith.ts lines 35-67: the id kept by the client, or the
\* id looked up and then kept; throws when the lookup fails or finds nothing.
getSessionId(sessionId, looked) ==
    IF sessionId # None THEN [sessionId |-> sessionId, result |-> Fulfilled(sessionId[1])]
    ELSE IF looked.status = "rejected" THEN [sessionId |-> None, result |-> Rejected]
    ELSE IF ~looked.value.ok THEN [sessionId |-> None, result |-> Rejected]
    ELSE IF ~looked.value.body.json THEN [sessionId |-> None, result |-> Rejected]
    ELSE IF looked.value.body.rows = << >> THEN [sessionId |-> None, result |-> Rejected]
    ELSE [sessionId |-> Some(looked.value.body.rows[1].id),
          result |-> Fulfilled(looked.value.body.rows[1].id)]

\* Lines 113-123: the latency of each run that has one.
RECURSIVE latenciesOf(_)
latenciesOf(runs) ==
    IF runs = << >> THEN << >>
    ELSE LET r == Head(runs)
         IN  (IF r.latency # 0 THEN << r.latency >>
              ELSE IF r.end_time # 0 /\ r.start_time # 0 THEN << r.end_time - r.start_time >>
              ELSE << >>)
             \o latenciesOf(Tail(runs))

\* Line 131: sort((a, b) => a - b).
RECURSIVE insert(_, _)
insert(x, sorted) ==
    IF sorted = << >> THEN << x >>
    ELSE IF x <= Head(sorted) THEN << x >> \o sorted
    ELSE << Head(sorted) >> \o insert(x, Tail(sorted))

RECURSIVE sort(_)
sort(numbers) == IF numbers = << >> THEN << >> ELSE insert(Head(numbers), sort(Tail(numbers)))

\* reduce((sum, x) => sum + x, 0)
RECURSIVE sum(_)
sum(numbers) == IF numbers = << >> THEN 0 ELSE Head(numbers) + sum(Tail(numbers))

\* Lines 107-152: the snapshot made of a non-empty list of runs.
langSmithSnapshot(runs) ==
    LET totalRuns == Len(runs)
        errorCount == Len(SelectSeq(runs, LAMBDA r : r.status = "error"))
        sortedLatencies == sort(latenciesOf(runs))
        p95Index == (Len(sortedLatencies) * 95) \div 100
        totalTokens == sum([n \in 1..Len(runs) |-> runs[n].total_tokens])
    IN  [totalRuns |-> totalRuns, errorCount |-> errorCount,
         errorRate |-> Ratio(errorCount * 100, totalRuns),
         p95Latency |-> IF Len(sortedLatencies) > 0
                        THEN Num(sortedLatencies[p95Index + 1]) ELSE Num(0),
         avgTokensPerRun |-> IF totalRuns > 0 THEN Ratio(totalTokens, totalRuns) ELSE Num(0)]

\* LangSmithClient.getMetrics, lines 69-157.
LangSmithClient_getMetrics(sessionId, looked, fetched) ==
    LET session == getSessionId(sessionId, looked)
        result ==
            IF session.result.status = "rejected" THEN Rejected
            ELSE IF fetched.status = "rejected" THEN Rejected
            ELSE IF ~fetched.value.ok THEN Rejected
            ELSE IF ~fetched.value.body.json THEN Rejected
            ELSE IF fetched.value.body.rows = << >> THEN Fulfilled(None)
            ELSE Fulfilled(Some(langSmithSnapshot(fetched.value.body.rows)))
    IN  [sessionId |-> session.sessionId, result |-> result]

\* LangSmithClient.getBaselineMetrics, lines 159-220: null for an answer that
\* is not ok and for every error of the try block, the lookup of the session
\* included; only the token average is computed.
LangSmithClient_getBaselineMetrics(sessionId, looked, fetched) ==
    LET session == getSessionId(sessionId, looked)
        result ==
            IF session.result.status = "rejected" THEN Fulfilled(None)
            ELSE IF fetched.status = "rejected" THEN Fulfilled(None)
            ELSE IF ~fetched.value.ok THEN Fulfilled(None)
            ELSE IF ~fetched.value.body.json THEN Fulfilled(None)
            ELSE IF fetched.value.body.rows = << >> THEN Fulfilled(None)
            ELSE Fulfilled(Some([langSmithSnapshot(fetched.value.body.rows)
                                     EXCEPT !.errorCount = 0, !.errorRate = Num(0),
                                            !.p95Latency = Num(0)]))
    IN  [sessionId |-> session.sessionId, result |-> result]

\* The calls runAlerting makes, on a client that holds no session id yet or,
\* for LangSmith, one that has looked it up before (line 22).
ClientCalls ==
    { [fn |-> fn, sessionId |-> None, looked |-> Rejected, fetched |-> a, result |-> None] :
        fn \in {"CloudflareAnalyticsClient.getMetrics",
                "CloudflareAnalyticsClient.getBaselineMetrics"},
        a \in CloudflareAnswers }
    \cup
    { [fn |-> fn, sessionId |-> None, looked |-> s, fetched |-> a, result |-> None] :
        fn \in {"LangSmithClient.getMetrics", "LangSmithClient.getBaselineMetrics"},
        s \in SessionAnswers, a \in RunsAnswers }
    \cup
    { [fn |-> fn, sessionId |-> Some("session"), looked |-> Rejected, fetched |-> a,
       result |-> None] :
        fn \in {"LangSmithClient.getMetrics", "LangSmithClient.getBaselineMetrics"},
        a \in RunsAnswers }

InitClients == \E env \in Environments, c \in ClientCalls : Started(env) /\ call = c

\* A call of the Cloudflare client settles.
cloudflareCalled ==
    /\ call.fn \in {"CloudflareAnalyticsClient.getMetrics",
                    "CloudflareAnalyticsClient.getBaselineMetrics"}
    /\ call.result = None
    /\ call' = [call EXCEPT !.result =
                   Some(IF call.fn = "CloudflareAnalyticsClient.getMetrics"
                        THEN CloudflareAnalyticsClient_getMetrics(call.fetched)
                        ELSE CloudflareAnalyticsClient_getBaselineMetrics(call.fetched))]
    /\ UNCHANGED <<now, kv, expires, cooldownMinutes, kvTtlSeconds, run, obs, pending>>

\* A call of the LangSmith client settles; the client keeps the session id.
langSmithCalled ==
    /\ call.fn \in {"LangSmithClient.getMetrics", "LangSmithClient.getBaselineMetrics"}
    /\ call.result = None
    /\ LET settled == IF call.fn = "LangSmithClient.getMetrics"
                      THEN LangSmithClient_getMetrics(call.sessionId, call.looked,
                                                      call.fetched)
                      ELSE LangSmithClient_getBaselineMetrics(call.sessionId, call.looked,
                                                              call.fetched)
       IN  call' = [call EXCEPT !.sessionId = settled.sessionId,
                                !.result = Some(settled.result)]
    /\ UNCHANGED <<now, kv, expires, cooldownMinutes, kvTtlSeconds, run, obs, pending>>

NextClients ==
    \/ cloudflareCalled
    \/ langSmithCalled

SpecClients == InitClients /\ [][NextClients]_vars

----------------------------------------------------------------------------
(* Vocabulary of the properties *)

CooldownMs == cooldownMinutes * MinuteMs

Stored(t) == kv[getStateKey(t)]
HasState(t) == Stored(t) # NoValue
LastAlertTime(t) == Stored(t)[1]
AlertCount(t) == IF HasState(t) THEN Stored(t)[2] ELSE 0

\* The cooldown condition as the specification words it.
Eligible(t) == ~HasState(t) \/ now - LastAlertTime(t) >= CooldownMs

InTry(p) == run[p].pc \in {"filter", "send", "recordGet", "recordPut"}

----------------------------------------------------------------------------
(* C1: with passes run one at a time, whenever the stored lastAlertTime of    *)
(* a type is replaced by a new one, the new one is at least the cooldown      *)
(* later than the one it replaces.                                            *)
C1_CooldownBetweenRecordings ==
    [][\A t \in AlertTypes :
          LET k == getStateKey(t) IN
          (kv[k] # NoValue /\ kv'[k] # NoValue /\ kv'[k][1] # kv[k][1])
              => kv'[k][1] - kv[k][1] >= CooldownMs]_vars

\* A type has been recorded by two passes, the second exactly one cooldown
\* after the first.
C1_Witness ==
    /\ AlertCount("llm_error_rate") = 2
    /\ LastAlertTime("llm_error_rate") = CooldownMs

(* C2: filterNewAlerts keeps an anomaly exactly when its type has no stored   *)
(* state or now - lastAlertTime >= cooldown.                                  *)
C2_KeptIffEligible ==
    [][\A p \in Passes :
          (run[p].pc = "filter" /\ run'[p] # run[p] /\ run'[p].pc # "thrown")
          => LET anomaly == run[p].anomalies[run[p].i]
                 kept == /\ run'[p].pc \in {"filter", "send"}
                         /\ run'[p].newAlerts = Append(run[p].newAlerts, anomaly)
             IN  kept <=> Eligible(anomaly.type)]_vars

\* The filter has just kept an anomaly whose cooldown elapsed at this instant.
C2_Witness ==
    \E p \in Passes :
        /\ run[p].pc \in {"filter", "send"}
        /\ run[p].newAlerts # << >>
        /\ LET t == run[p].newAlerts[Len(run[p].newAlerts)].type
           IN  HasState(t) /\ now - LastAlertTime(t) = CooldownMs

\* recordAlerts has returned normally in invocation p.
Recorded(p) ==
    /\ run[p].pc = "done"
    /\ obs[p].error = "none"
    /\ obs[p].sent # << >>

SentTypes(p) == {obs[p].sent[k] : k \in 1..Len(obs[p].sent)}

Occurrences(seq, x) == Cardinality({k \in 1..Len(seq) : seq[k] = x})

CountBefore(p, t) ==
    IF obs[p].before[getStateKey(t)] = NoValue THEN 0
    ELSE obs[p].before[getStateKey(t)][2]

(* C3: recordAlerts called with a batch that holds two anomalies of one type  *)
(* raises that type's alertCount by exactly 1.                                *)
C3_OneIncrementPerBatch ==
    \A p \in Passes :
        Recorded(p) =>
            \A t \in SentTypes(p) :
                Occurrences(obs[p].sent, t) = 2
                    => AlertCount(t) = CountBefore(p, t) + 1

(* C4: when the notification send fails, the pass does not reach recordAlerts *)
(* and writes no state, and every type of the undelivered batch stays         *)
(* eligible until it is recorded by a later pass.                             *)
C4_FailedSendKeepsEligible ==
    /\ \A p \in Passes :
          obs[p].error = "send"
              => /\ run[p].pc \in {"thrown", "done"}
                 /\ obs[p].written = {}
                 /\ obs[p].sent = << >>
    /\ \A t \in pending : Eligible(t)

\* A later pass has kept again a type whose notification failed to send.
C4_Witness ==
    \E p \in Passes :
        /\ run[p].pc = "send"
        /\ obs[p].error = "none"
        /\ pending \cap TypesOf(run[p].newAlerts) # {}

(* C5: filterNewAlerts does not change the store, and calling it again on the *)
(* same anomaly list at the same clock value returns the list it returned.    *)
C5_FilterIdempotent ==
    /\ [](\A p \in Passes :
            (run[p].pc = "send" /\ obs[p].filterAt = now)
                => filterNewAlerts(run[p].anomalies, kv, now, cooldownMinutes)
                       = run[p].newAlerts)
    /\ [][\A p \in Passes :
            (run[p].pc = "filter" /\ run'[p] # run[p]) => kv' = kv]_vars

\* A filter call has returned, within one clock value, a list that drops
\* some anomalies and keeps others.
C5_Witness ==
    \E p \in Passes :
        /\ run[p].pc = "send"
        /\ obs[p].filterAt = now
        /\ Len(run[p].newAlerts) < Len(run[p].anomalies)

(* C7: after recordAlerts has completed, every type of the batch is stored    *)
(* with lastAlertTime = the time of the call and alertCount = the count       *)
(* stored before the call plus 1 (1 when nothing was stored).                 *)
C7_RecordedState ==
    \A p \in Passes :
        Recorded(p) =>
            \A t \in SentTypes(p) :
                Stored(t) = <<obs[p].recordAt, CountBefore(p, t) + 1>>

(* C8: runAlerting never raises: whatever fails inside the pass, the error is *)
(* caught and the invocation returns normally.                                *)
C8_NeverRaises ==
    \A p \in Passes :
        /\ obs[p].outcome # "raised"
        /\ run[p].pc = "done" => obs[p].outcome = "returned"
        /\ run[p].pc = "thrown" => ENABLED catchError(p)

\* A pass in which the store or the delivery failed has returned normally.
C8_Witness ==
    \E p \in Passes :
        /\ run[p].pc = "done"
        /\ obs[p].error \in {"store", "send"}
        /\ obs[p].outcome = "returned"

CloudflareTypes == {"high_error_rate", "high_latency", "traffic_spike"}
LangSmithTypes == {"llm_error_rate", "llm_latency", "llm_high_tokens"}

OfTypes(anomalies, types) == SelectSeq(anomalies, LAMBDA a : a.type \in types)

(* C9: a source whose current fetch failed or returned no data contributes    *)
(* no anomaly, the pass does not fail because of it, and the anomalies of the *)
(* other source are those its detector finds in its snapshot.                 *)
C9_SourcesIsolated ==
    \A p \in Passes :
        /\ obs[p].error # "fetch"
        /\ InTry(p) =>
            /\ "cloudflare" \in obs[p].fetchFailed => run[p].cfMetrics = None
            /\ "langsmith" \in obs[p].fetchFailed => run[p].lsMetrics = None
            /\ run[p].cfMetrics = None
                   => OfTypes(run[p].anomalies, CloudflareTypes) = << >>
            /\ run[p].lsMetrics = None
                   => OfTypes(run[p].anomalies, LangSmithTypes) = << >>
            /\ run[p].cfMetrics # None
                   => \E b \in {None} \cup {Some(x) : x \in CloudflareBaselines} :
                         OfTypes(run[p].anomalies, CloudflareTypes)
                             = checkCloudflareAnomalies(run[p].cfMetrics[1], b,
                                                        DEFAULT_THRESHOLDS)
            /\ run[p].lsMetrics # None
                   => \E b \in {None} \cup {Some(x) : x \in LangSmithBaselines} :
                         OfTypes(run[p].anomalies, LangSmithTypes)
                             = checkLangSmithAnomalies(run[p].lsMetrics[1], b,
                                                       DEFAULT_THRESHOLDS)

\* The Cloudflare fetch failed and the pass has delivered the LangSmith anomaly.
C9_Witness ==
    \E p \in Passes :
        /\ "cloudflare" \in obs[p].fetchFailed
        /\ run[p].pc = "recordGet"
        /\ obs[p].sent = <<"llm_error_rate">>

(* C10: a store failure is propagated out of the state manager, and a pass in *)
(* which a state read or write fails leaves no type notified but unrecorded.  *)
C10_NoNotifiedUnrecorded ==
    \A p \in Passes :
        obs[p].error = "store"
            => /\ run[p].pc \in {"thrown", "done"}
               /\ SentTypes(p) \subseteq obs[p].written

\* The anomalies of invocation p that filterNewAlerts has decided so far.
Decided(p) == 1..(run[p].i - 1)

WasKept(p, k) == \E j \in 1..Len(run[p].newAlerts) : run[p].newAlerts[j] = run[p].anomalies[k]

(* C6: within one filterNewAlerts call, two anomalies of the same type get    *)
(* the same decision, also when another pass writes the type's state during   *)
(* the call.                                                                  *)
C6_SameTypeSameDecision ==
    \A p \in Passes :
        run[p].pc = "filter" =>
            \A k1, k2 \in Decided(p) :
                run[p].anomalies[k1].type = run[p].anomalies[k2].type
                    => (WasKept(p, k1) <=> WasKept(p, k2))

(* C11: the TTL passed to the store on a put is strictly greater than the     *)
(* cooldown, in every environment the constructor accepts.                    *)
C11_TtlExceedsCooldown ==
    \A p \in Passes :
        run[p].pc = "recordPut" => kvTtlSeconds * 1000 > CooldownMs

\* The alert state of a type, as the three states of its life cycle.
Phase(t) ==
    IF ~HasState(t) THEN "NEVER_ALERTED"
    ELSE IF now - LastAlertTime(t) < CooldownMs THEN "IN_COOLDOWN"
    ELSE "ELIGIBLE"

\* This step is a put of recordAlerts for type t.
Records(t) ==
    \E p \in Passes : recordPut(p) /\ run[p].newAlerts[run[p].i].type = t

\* This step removes the stored state of type t because its TTL has elapsed.
Expires(t) == now' > now /\ HasState(t) /\ expires[getStateKey(t)] <= now'

Notified(t) == \E p \in Passes : t \in SentTypes(p)

(* C13: when a type is detected in every pass, passes keep being triggered    *)
(* and store calls and deliveries eventually succeed, then whenever the type  *)
(* is not in cooldown a notification for it is eventually delivered.          *)
C13_NeverSuppressedForever ==
    Eligible("llm_error_rate") ~> Notified("llm_error_rate")

\* The type is being notified for the second time, its first cooldown over.
C13_Witness ==
    /\ Notified("llm_error_rate")
    /\ AlertCount("llm_error_rate") = 1
    /\ now - LastAlertTime("llm_error_rate") >= CooldownMs
    /\ \E p \in Passes : run[p].pc = "recordGet"

\* The stored state of type t has expired and nothing was written since.
WasExpired(t) == ~HasState(t) /\ expires[getStateKey(t)] = -1

(* C14: a stored state is gone once the TTL has elapsed since it was written; *)
(* for a type whose state has expired getState returns null, filterNewAlerts  *)
(* keeps the anomaly and the next put of recordAlerts stores alertCount 1;    *)
(* and filterNewAlerts decides alike for an absent state and for a state      *)
(* whose cooldown has elapsed.                                                *)
C14_ExpiredAsNeverAlerted ==
    /\ [](\A t \in AlertTypes :
            /\ HasState(t) => now < LastAlertTime(t) + kvTtlSeconds * 1000
            /\ WasExpired(t) => getState(kv, t) = None
            /\ (HasState(t) /\ now - LastAlertTime(t) >= CooldownMs)
                   => (inCooldown(Stored(t), now, cooldownMinutes)
                          <=> inCooldown(NoValue, now, cooldownMinutes)))
    /\ [][/\ \A p \in Passes :
               (run[p].pc = "filter" /\ filterGet(p)
                   /\ WasExpired(run[p].anomalies[run[p].i].type))
               => /\ run'[p].pc \in {"filter", "send"}
                  /\ run'[p].newAlerts
                         = Append(run[p].newAlerts, run[p].anomalies[run[p].i])
          /\ \A t \in AlertTypes :
               (WasExpired(t) /\ Records(t)) => AlertCount(t)' = 1
         ]_vars

\* A type whose state expired was kept and delivered, and its first state is
\* about to be written again.
C14_Witness ==
    \E p \in Passes :
        /\ run[p].pc = "recordPut"
        /\ WasExpired(run[p].newAlerts[run[p].i].type)

(* C15: a pass makes at most one request to the notifier, none before the     *)
(* filter has finished, and none when no anomaly was detected or kept; the    *)
(* request carries, in order, all the anomalies the filter kept.              *)
C15_OneSendPerPass ==
    \A p \in Passes :
        /\ Len(obs[p].calls) <= 1
        /\ \A n \in 1..Len(obs[p].calls) : obs[p].calls[n] # << >>
        /\ run[p].pc \in {"idle", "fetch", "filter", "send"} => obs[p].calls = << >>
        /\ run[p].pc = "send" => run[p].newAlerts # << >>
        /\ run[p].pc \in {"recordGet", "recordPut"}
               => obs[p].calls = <<TypeSeq(run[p].newAlerts)>>
        /\ (run[p].pc = "done" /\ obs[p].error = "none" /\ obs[p].calls = << >>)
               => obs[p].sent = << >> /\ obs[p].written = {}

\* One request has delivered a batch of three anomalies.
C15_Witness ==
    \E p \in Passes :
        /\ run[p].pc = "recordPut"
        /\ Len(obs[p].calls) = 1
        /\ Len(obs[p].calls[1]) = 3

(* C16: every stored alert state has alertCount >= 1; a stored state          *)
(* disappears only by clearAllState or by the expiry of its TTL, in a step    *)
(* that is no step of a pass.                                                 *)
C16_StoredStateKept ==
    /\ [](\A t \in AlertTypes : HasState(t) => Stored(t)[2] >= 1)
    /\ [][\A t \in AlertTypes :
             (HasState(t) /\ ~HasState(t)')
                 => /\ Expires(t) \/ clearAllState
                    /\ run' = run
         ]_vars

\* The state of one type has expired while another type holds a state.
C16_Witness ==
    /\ WasExpired("high_latency")
    /\ HasState("llm_error_rate")

Min(a, b) == IF a <= b THEN a ELSE b

(* C17: when two overlapping passes have both recorded a type, its alertCount *)
(* has grown by at least 1 and at most by the number of anomalies of the type *)
(* in the two batches; the growth by 2 for a type that occurs once in each    *)
(* batch is reached (C17_Witness).                                            *)
C17_OverlapCounts ==
    \A p, q \in Passes :
        (p # q /\ Recorded(p) /\ Recorded(q)) =>
            \A t \in SentTypes(p) \cap SentTypes(q) :
                LET base == Min(CountBefore(p, t), CountBefore(q, t))
                IN  /\ AlertCount(t) >= base + 1
                    /\ AlertCount(t) <= base + Occurrences(obs[p].sent, t)
                                             + Occurrences(obs[q].sent, t)

\* Both passes entered recordAlerts when the type had no state, each batch
\* holds the type once, and the stored alertCount is 2.
C17_Witness ==
    /\ Recorded("scheduled") /\ Recorded("fetch")
    /\ obs["scheduled"].sent = <<"llm_error_rate">>
    /\ obs["fetch"].sent = <<"llm_error_rate">>
    /\ CountBefore("scheduled", "llm_error_rate") = 0
    /\ CountBefore("fetch", "llm_error_rate") = 0
    /\ AlertCount("llm_error_rate") = 2

\* The detector that was called has returned; its result, and the anomalies
\* of one type in it.
Returns(fn) == call.fn = fn /\ call.result # None
Result == call.result[1]
Found(type) == OfTypes(Result, {type})

\* The number x is greater than the integer n.
Above(x, n) == x.num > n * x.den

\* The type, severity, value and threshold of each anomaly of a sequence.
Graded(seq) ==
    [i \in 1..Len(seq) |-> [type |-> seq[i].type, severity |-> seq[i].severity,
                            value |-> seq[i].value, threshold |-> seq[i].threshold]]

(* C18: the Cloudflare detector returns no high_error_rate anomaly when       *)
(* errorRate <= errorRatePercent, and otherwise exactly one, of severity      *)
(* high, with value errorRate and threshold errorRatePercent; the LangSmith   *)
(* detector does the same for llm_error_rate and llmErrorRatePercent.         *)
C18_ErrorRateAnomaly ==
    /\ Returns("checkCloudflareAnomalies") =>
        LET current == call.current[1]
            limit == call.thresholds.errorRatePercent
        IN  Graded(Found("high_error_rate")) =
                IF Above(current.errorRate, limit)
                THEN << [type |-> "high_error_rate", severity |-> "high",
                         value |-> current.errorRate, threshold |-> limit] >>
                ELSE << >>
    /\ Returns("checkLangSmithAnomalies") =>
        LET current == call.current[1]
            limit == call.thresholds.llmErrorRatePercent
        IN  Graded(Found("llm_error_rate")) =
                IF Above(current.errorRate, limit)
                THEN << [type |-> "llm_error_rate", severity |-> "high",
                         value |-> current.errorRate, threshold |-> limit] >>
                ELSE << >>

\* An error rate of 7.5 percent against the limit of 5 has given one anomaly
\* with value 7.5 and threshold 5.
C18_Witness ==
    /\ Returns("checkCloudflareAnomalies")
    /\ call.current[1].errorRate = [num |-> 15, den |-> 2]
    /\ Len(Found("high_error_rate")) = 1
    /\ Found("high_error_rate")[1].value = [num |-> 15, den |-> 2]
    /\ Found("high_error_rate")[1].threshold = 5

\* The baseline value a spike is measured against: requestCount or
\* avgTokensPerRun of the baseline, absent when the baseline is null.
SpikeType == IF call.fn = "checkCloudflareAnomalies" THEN "traffic_spike" ELSE "llm_high_tokens"
SpikeField == IF call.fn = "checkCloudflareAnomalies" THEN "requestCount" ELSE "avgTokensPerRun"
SpikeLimit ==
    IF call.fn = "checkCloudflareAnomalies" THEN call.thresholds.trafficSpikeMultiplier
    ELSE call.thresholds.llmTokenSpikeMultiplier
NoDenominator == call.baseline = None \/ call.baseline[1][SpikeField].num = 0

(* C19: with a null baseline, or a baseline whose requestCount (Cloudflare)   *)
(* or avgTokensPerRun (LangSmith) is 0, the detector returns no traffic_spike *)
(* and no llm_high_tokens anomaly, whatever the current value.                *)
C19_NoSpikeWithoutBaseline ==
    (call.result # None /\ NoDenominator)
        => Found("traffic_spike") = << >> /\ Found("llm_high_tokens") = << >>

\* 300 requests against a baseline of 0 requests: no spike is reported.
C19_Witness ==
    /\ Returns("checkCloudflareAnomalies")
    /\ call.baseline # None
    /\ call.baseline[1].requestCount = [num |-> 0, den |-> 1]
    /\ call.current[1].requestCount = [num |-> 300, den |-> 1]
    /\ Found("traffic_spike") = << >>

(* C20: with a baseline whose denominator is > 0 the detector returns one     *)
(* spike anomaly exactly when current / baseline > multiplier, and none       *)
(* otherwise; its value is that quotient and its threshold the multiplier.    *)
C20_SpikeIffRatioAbove ==
    (call.result # None /\ ~NoDenominator) =>
        LET c == call.current[1][SpikeField]
            b == call.baseline[1][SpikeField]
            spikes == Found(SpikeType)
        IN  IF c.num * b.den > SpikeLimit * b.num * c.den
            THEN /\ Len(spikes) = 1
                 /\ spikes[1].value.num * (c.den * b.num)
                        = spikes[1].value.den * (c.num * b.den)
                 /\ spikes[1].threshold = SpikeLimit
            ELSE spikes = << >>

\* 300 requests against a baseline of 100 with multiplier 2: one traffic_spike
\* with value 3.
C20_Witness ==
    /\ Returns("checkCloudflareAnomalies")
    /\ call.thresholds.trafficSpikeMultiplier = 2
    /\ call.current[1].requestCount = [num |-> 300, den |-> 1]
    /\ call.baseline # None
    /\ call.baseline[1].requestCount = [num |-> 100, den |-> 1]
    /\ Len(Found("traffic_spike")) = 1
    /\ Found("traffic_spike")[1].value = [num |-> 3, den |-> 1]
    /\ Found("traffic_spike")[1].threshold = 2


\* The value and the threshold each anomaly of a sequence carries.
Measures(seq) == [i \in 1..Len(seq) |-> <<seq[i].value, seq[i].threshold>>]

(* C21: the Cloudflare detector checks P95 and P99 latency independently:     *)
(* P95 above p95LatencyMs gives one high_latency anomaly with value P95 and   *)
(* threshold p95LatencyMs, P99 above p99LatencyMs gives one with value P99    *)
(* and threshold p99LatencyMs; two when both breach, one when only one does.  *)
C21_LatenciesIndependent ==
    Returns("checkCloudflareAnomalies") =>
        LET current == call.current[1]
            th == call.thresholds
            p95 == IF Above(current.p95Latency, th.p95LatencyMs)
                   THEN << <<current.p95Latency, th.p95LatencyMs>> >> ELSE << >>
            p99 == IF Above(current.p99Latency, th.p99LatencyMs)
                   THEN << <<current.p99Latency, th.p99LatencyMs>> >> ELSE << >>
        IN  /\ Measures(Found("high_latency")) = p95 \o p99
            /\ \A i \in 1..Len(Found("high_latency")) :
                   Found("high_latency")[i].severity = "high"

\* P95 2500 ms and P99 3500 ms against 2000 and 3000: two anomalies, each
\* with its own value and threshold.
C21_Witness ==
    /\ Returns("checkCloudflareAnomalies")
    /\ call.current[1].p95Latency = [num |-> 2500, den |-> 1]
    /\ call.current[1].p99Latency = [num |-> 3500, den |-> 1]
    /\ Measures(Found("high_latency")) =
           << <<[num |-> 2500, den |-> 1], 2000>>, <<[num |-> 3500, den |-> 1], 3000>> >>

\* The place of an anomaly type in the order the detectors push.
Rank(type) ==
    CASE type \in {"high_error_rate", "llm_error_rate"} -> 1
      [] type \in {"high_latency", "llm_latency"} -> 2
      [] type \in {"traffic_spike", "llm_high_tokens"} -> 3

(* C22: the anomalies a detector returns are in the order error rate, then    *)
(* latency (P95 before P99), then spike, whichever of them fire.              *)
C22_FixedOrder ==
    call.result # None =>
        \A i, j \in 1..Len(Result) :
            i < j =>
                /\ Rank(Result[i].type) <= Rank(Result[j].type)
                /\ (Result[i].type = "high_latency" /\ Result[j].type = "high_latency")
                       => /\ Result[i].value = call.current[1].p95Latency
                          /\ Result[i].threshold = call.thresholds.p95LatencyMs
                          /\ Result[j].value = call.current[1].p99Latency
                          /\ Result[j].threshold = call.thresholds.p99LatencyMs

\* All four Cloudflare checks fire.
C22_Witness ==
    /\ Returns("checkCloudflareAnomalies")
    /\ TypeSeq(Result) = <<"high_error_rate", "high_latency", "high_latency", "traffic_spike">>
    /\ Result[2].threshold = 2000
    /\ Result[3].threshold = 3000

\* The snapshot of the call counts no observation at all.
ZeroObservations ==
    IF call.fn = "checkCloudflareAnomalies"
    THEN call.current[1].requestCount.num = 0
    ELSE call.current[1].totalRuns = 0

UrgentTypes == {"high_error_rate", "high_latency", "llm_error_rate", "llm_latency"}
Posted == call.fn = "sendAlert" /\ call.request # None

(* C24: the Priority of a notification is high exactly when the batch holds   *)
(* an anomaly of type high_error_rate, high_latency, llm_error_rate or        *)
(* llm_latency, and default when it holds only traffic_spike and              *)
(* llm_high_tokens anomalies.                                                 *)
C24_PriorityByType ==
    Posted =>
        /\ call.request[1].Priority \in {"high", "default"}
        /\ call.request[1].Priority = "high"
               <=> TypesOf(call.anomalies) \cap UrgentTypes # {}
        /\ call.request[1].Priority = "default"
               <=> TypesOf(call.anomalies) \subseteq {"traffic_spike", "llm_high_tokens"}

\* A traffic spike next to an LLM latency breach: high priority.
C24_Witness ==
    /\ Posted
    /\ TypeSeq(call.anomalies) = <<"traffic_spike", "llm_latency">>
    /\ call.request[1].Priority = "high"

(* C25: sendAlert called with a non-empty list throws whenever the request    *)
(* to ntfy fails or is answered with a status that is not a success, and      *)
(* returns normally only when the delivery succeeded.                         *)
C25_FailedDeliveryThrows ==
    (Returns("sendAlert") /\ call.anomalies # << >>) =>
        LET failed == \/ call.response.status = "rejected"
                      \/ call.response.value.status \notin 200..299
        IN  /\ failed => Result = "thrown"
            /\ Result = "returned" => ~failed
            /\ Result \in {"returned", "thrown"}

\* ntfy answers 429 and the call throws.
C25_Witness ==
    /\ Returns("sendAlert")
    /\ call.anomalies # << >>
    /\ call.response.status = "fulfilled"
    /\ call.response.value.status = 429
    /\ Result = "thrown"

(* C26: once clearAllState has completed, getState returns null for every     *)
(* anomaly type and filterNewAlerts keeps every anomaly; getState(type)       *)
(* returns the state stored for the type, or null when there is none, and     *)
(* leaves the store as it was.                                                *)
C26_ClearedAndRead ==
    /\ [][clearAllState =>
            /\ \A t \in AlertTypes : getState(kv', t) = None
            /\ \A t \in AlertTypes :
                   filterNewAlerts(<< [type |-> t] >>, kv', now', cooldownMinutes')
                       = << [type |-> t] >>]_vars
    /\ [][\A t \in AlertTypes :
            getStateCalled(t) =>
                /\ call'.result[1] =
                       IF HasState(t)
                       THEN Some([lastAlertTime |-> LastAlertTime(t),
                                  alertCount |-> AlertCount(t)])
                       ELSE None
                /\ kv' = kv
                /\ expires' = expires]_vars

\* getState has returned the state a pass had stored for llm_error_rate, and
\* clearAllState has then deleted it.
C26_Witness ==
    /\ call.fn = "getState"
    /\ call.alertType = "llm_error_rate"
    /\ call.result[1] = Some([lastAlertTime |-> 0, alertCount |-> 1])
    /\ \A p \in Passes : run[p].pc = "idle"
    /\ \A t \in AlertTypes : ~HasState(t) /\ expires[getStateKey(t)] = 0

\* A request of the call failed: it was rejected, answered with a status that
\* is not a success, or answered with a body that is no JSON; for LangSmith
\* the lookup of the session counts too (the client holds no session id after
\* the call exactly when the lookup failed or found no project).
Unanswered(fetched) ==
    \/ fetched.status = "rejected"
    \/ fetched.value.status \notin 200..299
    \/ ~fetched.value.body.json
IsGetMetrics == call.fn \in {"CloudflareAnalyticsClient.getMetrics", "LangSmithClient.getMetrics"}
IsGetBaselineMetrics ==
    call.fn \in {"CloudflareAnalyticsClient.getBaselineMetrics",
                 "LangSmithClient.getBaselineMetrics"}
IsLangSmith == call.fn \in {"LangSmithClient.getMetrics", "LangSmithClient.getBaselineMetrics"}
RequestFailed == Unanswered(call.fetched) \/ (IsLangSmith /\ call.sessionId = None)
\* The source reported an error: a failed request, or GraphQL errors in the answer.
SourceFailed == RequestFailed \/ call.fetched.value.body.errors
NoData == ~SourceFailed /\ call.fetched.value.body.rows = << >>
Settles == (IsGetMetrics \/ IsGetBaselineMetrics) /\ call.result # None

(* C27, as claimed: every one of getMetrics and getBaselineMetrics of both    *)
(* clients returns null when no data exists in the range, and throws exactly  *)
(* when the transport or the authentication fails.                            *)
C27_ThrowsExactlyOnFailure ==
    Settles =>
        /\ NoData => Result = Fulfilled(None)
        /\ Result = Rejected <=> SourceFailed

(* C27, amended: getMetrics of both clients returns null when the source      *)
(* answers with no data and throws exactly when a request fails or the answer *)
(* reports errors; getBaselineMetrics of both clients never throws, and       *)
(* returns null both when no data exists and when a request fails.            *)
C27_BaselineNeverThrows ==
    Settles =>
        /\ IsGetMetrics =>
              /\ Result = Rejected <=> SourceFailed
              /\ Result = Fulfilled(None) <=> NoData
        /\ IsGetBaselineMetrics =>
              /\ Result # Rejected
              /\ Result = Fulfilled(None)
                     <=> (RequestFailed \/ call.fetched.value.body.rows = << >>)

\* The Cloudflare API answers 401 to the baseline query: null is returned.
C27_Witness ==
    /\ call.fn = "CloudflareAnalyticsClient.getBaselineMetrics"
    /\ call.result # None
    /\ call.fetched.status = "fulfilled"
    /\ call.fetched.value.status = 401
    /\ Result = Fulfilled(None)

\* The default limit for the LLM P95 latency as the README lists it.
DocumentedLlmP95LatencyMs == 10000

(* C28: with the default thresholds the LangSmith detector returns an         *)
(* llm_latency anomaly for every snapshot whose P95 latency is above 10000 ms *)
(* and none for a P95 latency of 10000 ms or less.                            *)
C28_LlmLatencyAboveTenSeconds ==
    (Returns("checkLangSmithAnomalies") /\ call.thresholds = DEFAULT_THRESHOLDS) =>
        (Found("llm_latency") # << >>
            <=> Above(call.current[1].p95Latency, DocumentedLlmP95LatencyMs))

\* The message holds the text among its interpolated parts.
Embeds(message, text) == \E n \in 1..Len(message) : message[n] = text

\* Decimals the specification gives to a value: none for milliseconds, two
\* for percentages and ratios.
Decimals(type) == IF type \in {"high_latency", "llm_latency"} THEN 0 ELSE 2

(* C29: the message of every anomaly, of each of the six types, holds the     *)
(* observed value and the threshold, written with 2 decimals for percentages  *)
(* and ratios and with 0 decimals for milliseconds.                           *)
C29_MessageEmbedsValueAndThreshold ==
    (Returns("checkCloudflareAnomalies") \/ Returns("checkLangSmithAnomalies")) =>
        \A i \in 1..Len(Result) :
            LET a == Result[i]
            IN  /\ Embeds(a.message, toFixed(a.value, Decimals(a.type)))
                /\ \/ Embeds(a.message, Text(Num(a.threshold)))
                   \/ Embeds(a.message, toFixed(Num(a.threshold), Decimals(a.type)))

\* Pass p holds type t in the batch its filter has kept so far, sent or not.
Holds(p, t) == t \in TypesOf(run[p].newAlerts)

\* This step is an iteration of the filter of pass q whose kv.get succeeded.
Decides(q) ==
    /\ run[q].pc = "filter"
    /\ run'[q] # run[q]
    /\ run'[q].pc \in {"filter", "send", "done"}

(* C30: the filter of a pass looks at the stored state alone: while another   *)
(* pass holds type T in its kept batch (about to send it, or sent and not yet *)
(* recorded) and T is eligible in the store, the filter keeps T as well; so   *)
(* two overlapping passes both notify T within one cooldown (C30_Witness).    *)
C30_BothFindEligible ==
    [][\A p, q \in Passes :
          LET anomaly == run[q].anomalies[run[q].i]
          IN  (p # q /\ Decides(q) /\ Holds(p, anomaly.type) /\ Eligible(anomaly.type))
                  => run'[q].newAlerts = Append(run[q].newAlerts, anomaly)]_vars

\* Both passes have sent a notification for llm_error_rate at the same reading
\* of the clock, and neither has recorded the type yet.
C30_Witness ==
    /\ \A p \in Passes :
          /\ run[p].pc = "recordGet"
          /\ "llm_error_rate" \in SentTypes(p)
          /\ Len(obs[p].calls) = 1
          /\ obs[p].recordAt = now
    /\ ~HasState("llm_error_rate")
    /\ CooldownMs > 0

(* C31: in a pass the stored state of a type changes only in a put of         *)
(* recordAlerts, made after the notification was delivered and for a type of  *)
(* the delivered batch; a detected anomaly that the cooldown filter dropped   *)
(* leaves lastAlertTime and alertCount of its type as they were.              *)
Dropped(p) ==
    {run[p].anomalies[k].type : k \in 1..Len(run[p].anomalies)} \ TypesOf(run[p].newAlerts)

C31_ChangedOnlyWhenRecorded ==
    [][\A t \in AlertTypes :
          Stored(t)' # Stored(t)
              => \E p \in Passes :
                    /\ run[p].pc = "recordPut"
                    /\ run[p].newAlerts[run[p].i].type = t
                    /\ obs[p].calls = << TypeSeq(run[p].newAlerts) >>
                    /\ obs[p].error = "none"
                    /\ t \in SentTypes(p)
                    /\ t \notin Dropped(p)
                    /\ Stored(t)' = JSONstringify(nextState(run[p].stateJson, run[p].now))]_vars

\* A pass is recording its delivered batch, has put one state already, and
\* had dropped llm_error_rate in the filter: that type still holds the state
\* of the earlier notification.
C31_Witness ==
    \E p \in Passes :
        /\ run[p].pc = "recordGet"
        /\ obs[p].written # {}
        /\ "llm_error_rate" \in Dropped(p)
        /\ Stored("llm_error_rate") = JSONstringify([lastAlertTime |-> 0, alertCount |-> 1])
        /\ run[p].now > 0

(* C32: a forced alert with ignoreCooldown = true posts both mock anomalies   *)
(* without running the cooldown filter, also when their types are in          *)
(* cooldown, and its recordAlerts restarts the state of high_error_rate and   *)
(* llm_error_rate only; with ignoreCooldown = false the mock anomalies go     *)
(* through filterNewAlerts, and when both are in cooldown nothing is posted   *)
(* and nothing is written.                                                    *)
MockTypes == <<"high_error_rate", "llm_error_rate">>

IgnoreCooldown == call.fn = "sendForcedAlert" /\ call.options.ignoreCooldown

EligibleMocks == SelectSeq(MockTypes, LAMBDA t : Eligible(t))

C32_ForcedAlert ==
    [][LET forced  == run["fetch"]
           forced1 == run'["fetch"]
       IN  forced1 # forced =>
             \* the filter runs exactly when ignoreCooldown is false
             /\ forced1.pc = "filter" => ~IgnoreCooldown'
             /\ (forced.pc = "idle" /\ IgnoreCooldown') => forced1.pc = "send"
             \* what is posted
             /\ (forced.pc = "send" /\ forced1.pc = "recordGet")
                    => /\ obs'["fetch"].calls = << TypeSeq(forced.newAlerts) >>
                       /\ TypeSeq(forced.newAlerts) =
                              IF IgnoreCooldown THEN MockTypes ELSE EligibleMocks
                       /\ forced.newAlerts # << >>
             \* both in cooldown, ignoreCooldown false: nothing posted or written
             /\ (forced.pc = "filter" /\ forced1.pc = "done")
                    => /\ EligibleMocks = << >>
                       /\ obs'["fetch"].calls = << >>
                       /\ obs'["fetch"].written = {}
                       /\ kv' = kv
             /\ (forced.pc = "filter" /\ forced1.pc = "send")
                    => EligibleMocks # << >>
             \* what is written
             /\ \A t \in AlertTypes :
                    Stored(t)' # Stored(t)
                        => /\ \E n \in 1..Len(MockTypes) : MockTypes[n] = t
                           /\ Stored(t)' = JSONstringify(
                                  [lastAlertTime |-> now,
                                   alertCount |-> CountBefore("fetch", t) + 1])
             /\ (forced.pc = "recordPut" /\ forced1.pc = "done" /\ IgnoreCooldown)
                    => obs'["fetch"].written = {"high_error_rate", "llm_error_rate"}]_vars

\* A forced alert with ignoreCooldown = true has returned one minute after a
\* cron pass notified llm_error_rate and high_latency under a cooldown of two
\* minutes: both mock anomalies were posted, llm_error_rate has alerted twice
\* and its cooldown runs from the forced alert, high_latency is as the cron
\* pass left it.
C32_Witness ==
    /\ IgnoreCooldown
    /\ Recorded("fetch")
    /\ obs["fetch"].calls = << MockTypes >>
    /\ obs["fetch"].before[getStateKey("llm_error_rate")] =
           JSONstringify([lastAlertTime |-> 0, alertCount |-> 1])
    /\ now = MinuteMs
    /\ CooldownMs = 2 * MinuteMs
    /\ Stored("llm_error_rate") = JSONstringify([lastAlertTime |-> now, alertCount |-> 2])
    /\ Stored("high_error_rate") = JSONstringify([lastAlertTime |-> now, alertCount |-> 1])
    /\ Stored("high_latency") = JSONstringify([lastAlertTime |-> 0, alertCount |-> 1])

(* C33: when a store read or write fails inside recordAlerts, the types put   *)
(* before the failure keep their new state, the other types of the delivered  *)
(* batch keep the state they had before the call, and those are still         *)
(* eligible.  (A type that is twice in the batch is put once per occurrence.) *)
RecordFailed(p) ==
    /\ run[p].pc \in {"thrown", "done"}
    /\ obs[p].error = "store"
    /\ obs[p].sent # << >>

C33_RecordNotAtomic ==
    \A p \in Passes :
        RecordFailed(p) =>
            \A t \in SentTypes(p) :
                IF t \in obs[p].written
                THEN /\ HasState(t)
                     /\ LastAlertTime(t) = obs[p].recordAt
                     /\ AlertCount(t) > CountBefore(p, t)
                     /\ AlertCount(t) <= CountBefore(p, t) + Occurrences(obs[p].sent, t)
                ELSE /\ Stored(t) = obs[p].before[getStateKey(t)]
                     /\ Eligible(t)

\* recordAlerts failed on its third anomaly: high_latency is recorded,
\* llm_error_rate was notified and has no state.
C33_Witness ==
    \E p \in Passes :
        /\ RecordFailed(p)
        /\ obs[p].sent = <<"high_latency", "high_latency", "llm_error_rate">>
        /\ obs[p].calls = << obs[p].sent >>
        /\ obs[p].written = {"high_latency"}
        /\ HasState("high_latency")
        /\ ~HasState("llm_error_rate")

(* C34: a pass that detects nothing returns from the detection without a      *)
(* store read, a store write or a notification; a pass whose detected         *)
(* anomalies are all in cooldown when the filter reads them returns from the  *)
(* filter having read the store once per anomaly, without a notification and  *)
(* without a store write.                                                     *)
Quiet(p) ==
    /\ run'[p].pc = "done"
    /\ obs'[p].outcome = "returned"
    /\ obs'[p].calls = << >>
    /\ obs'[p].written = {}
    /\ kv' = kv
    /\ expires' = expires

C34_NothingToNotify ==
    [][\A p \in Passes :
          /\ (run[p].pc = "fetch" /\ run'[p] # run[p] /\ run'[p].pc # "thrown")
                 => \* the filter, hence any store read, is entered only with anomalies
                    IF Len(run'[p].anomalies) = 0
                    THEN Quiet(p)
                    ELSE run'[p].pc = "filter" /\ run'[p].i = 1 /\ kv' = kv
          /\ (/\ run[p].pc = "filter" /\ run'[p] # run[p] /\ run'[p].pc # "thrown"
              /\ run[p].i = Len(run[p].anomalies)
              /\ run[p].newAlerts = << >>
              /\ ~Eligible(run[p].anomalies[run[p].i].type))
                 => Quiet(p)]_vars

\* The filter has read the state of two detected anomalies, both in cooldown,
\* and is reading the third and last, also in cooldown: the pass is about to
\* return.
C34_Witness ==
    \E p \in Passes :
        /\ run[p].pc = "filter"
        /\ Len(run[p].anomalies) = 3
        /\ run[p].i = 3
        /\ run[p].newAlerts = << >>
        /\ \A k \in 1..3 : ~Eligible(run[p].anomalies[k].type)
        /\ obs[p].calls = << >>

(* C35: a write that replaces the stored state of a type lowers neither its   *)
(* lastAlertTime nor its alertCount.                                          *)
C35_StateNeverDecreases ==
    [][\A t \in AlertTypes :
          (HasState(t) /\ HasState(t)')
              => /\ LastAlertTime(t)' >= LastAlertTime(t)
                 /\ AlertCount(t)' >= AlertCount(t)]_vars

(* C36: the error-rate and latency anomalies a detector returns do not depend *)
(* on the baseline: they are, one for one, what the detector returns for the  *)
(* same snapshot and limits with a null baseline, and with a null baseline it *)
(* returns nothing else.                                                      *)
NonSpike(seq) == SelectSeq(seq, LAMBDA a : a.type \notin {"traffic_spike", "llm_high_tokens"})

WithoutBaseline ==
    IF call.fn = "checkCloudflareAnomalies"
    THEN checkCloudflareAnomalies(call.current[1], None, call.thresholds)
    ELSE checkLangSmithAnomalies(call.current[1], None, call.thresholds)

C36_BaselineOnlyForSpike ==
    (Returns("checkCloudflareAnomalies") \/ Returns("checkLangSmithAnomalies"))
        => NonSpike(Result) = WithoutBaseline

\* The LangSmith detector, given a baseline, returned an error-rate, a latency
\* and a token anomaly; with a null baseline the same snapshot gives the
\* first two.
C36_Witness ==
    /\ Returns("checkLangSmithAnomalies")
    /\ call.baseline # None
    /\ TypeSeq(Result) = <<"llm_error_rate", "llm_latency", "llm_high_tokens">>
    /\ TypeSeq(WithoutBaseline) = <<"llm_error_rate", "llm_latency">>
====
